---- MODULE Spec2Model ----
(***************************************************************************)
(* Model of the tunnel manager of IAP Tunnel Manager (src/app.go): the     *)
(* registry a.tunnels, the Tunnel objects, StartTunnelWithRemotePort and    *)
(* its port resolution, the runTunnel goroutine with its accept loop,      *)
(* StopTunnel / StopAllTunnels / RemoveTunnel / ClearStoppedTunnels,       *)
(* shutdown, and Tunnel.addLog.                                            *)
(*                                                                         *)
(* Granularity: code that runs under a.tunnelsMu is one step per critical  *)
(* section; code that runs without the lock (runTunnel, the port probe,    *)
(* GetFreePort) is one step per access to shared state.  Go's              *)
(* unsynchronised writes of Tunnel.Status and Tunnel.listener by runTunnel *)
(* and by the shutdown goroutines therefore interleave freely with the     *)
(* locked operations, each write landing before or after the other.        *)
(*                                                                         *)
(* The operating system is an environment: net.Listen on a port fails when *)
(* one of the program's own listeners is open on it and may fail otherwise *)
(* (another application holds the port).  A timestamp is kept as its rank  *)
(* among the timestamps it is compared with (tunnel IDs with tunnel IDs,   *)
(* StartedAt with StartedAt).                                              *)
(* The target (project, VM, zone) is one fixed triple, the worst case for  *)
(* tunnel IDs; the remote port and the "[15:04:05]" prefix of a log line   *)
(* take part in no decision and are left out of the state.                 *)
(* A return value is an operator of the state the call ran in              *)
(* (StopTunnelErr, RemoveTunnelErr); ret holds what the latest            *)
(* StartTunnelWithRemotePort call returned.  Calls from the user interface *)
(* begin while the application                                             *)
(* is running (before shutdown starts); calls and goroutines already under *)
(* way go on during and after shutdown.                                    *)
(***************************************************************************)
EXTENDS Naturals, Integers, Sequences, FiniteSets, TLC

\* ---------------------------------------------------------------- bounds
\* StartTunnelWithRemotePort calls made over a run (each may overlap the others).
MaxCalls == 2
\* Local TCP ports 1..MaxPort; 0 asks for an automatically chosen port.
MaxPort == 2
\* addLog calls made on the log of LogSpec.
MaxAppends == 120
\* Clock ticks to the second: the instants time.Now tells apart within a second.
TicksPerSecond == 2
\* The instants 1..MaxTick at which the sessions of ListSpec were created.
MaxTick == 6
\* The RSA keys 1..MaxModulus whose responses can stand in the serial output.
MaxModulus == 2
\* Entries the guest agent writes to the serial port over a run.
MaxEntries == 2
\* A GetSerialPortOutput call takes 0..MaxFetchTime seconds.
MaxFetchTime == 1
\* The most items in the metadata of the instance.
MaxItems == 2
\* The most connections the accept loops take.
MaxConns == 2
\* The most errors the Accept calls return while the session is not cancelled.
MaxAcceptErrors == 2
\* The AddFavorite calls 1..MaxAdds, which may run at the same time.
MaxAdds == 2
\* The VMs 1..MaxVMs a favorite can be saved for.
MaxVMs == 2
\* The goroutines 1..MaxThreads that take the locks of the tunnel manager.
MaxThreads == 2

\* ------------------------------------------------------ program constants
\* Tunnel.addLog keeps the last 100 entries.
LogCap == 100
\* GetFreePort tries up to 10 times.
MaxAttempts == 10
\* pollForWindowsPassword: timeout, interval and maxInterval, in seconds.
Timeout == 90
FirstInterval == 2
MaxInterval == 5

Ports == 1..MaxPort
Calls == 1..MaxCalls
\* The tunnel IDs calls can generate, and 0, which no call generates.
IDs == 0..MaxCalls

VARIABLES
    tokenSource,  \* a.tokenSource: "nil" or "set"
    heap,          \* the Tunnel objects ever allocated, in allocation order
    tunnels,       \* a.tunnels: tunnel ID -> index of its object in heap
    call,          \* the StartTunnelWithRemotePort calls: position and locals
    ret,           \* what the latest StartTunnelWithRemotePort to return returned
    runPc,         \* per object: position of its runTunnel goroutine
    acceptPc,      \* per object: position of its accept-loop goroutine
    stops,         \* per object: StopTunnel calls that returned nil for it (up to 2)
    shutPc,        \* shutdown: "idle", "waiting", "returned"
    shutPending,   \* shutdown's WaitGroup: objects whose stop goroutine has not run
    shutTargets,   \* the objects shutdown started a stop goroutine for
    shutBranch,    \* the select branch shutdown returned through
    logN,          \* LogSpec: addLog calls made so far
    held,          \* the TunnelInfo values the caller last received
    serial,        \* the entries of the VM's serial port 4 output, oldest first
    pollPc,        \* pollForWindowsPassword: "idle", "fetch", "sleep", "returned"
    elapsed,       \* pollForWindowsPassword: seconds since startTime
    interval,      \* pollForWindowsPassword: its local interval, in seconds
    pollRet,       \* what pollForWindowsPassword returned
    genPc,         \* GenerateWindowsPassword: the call it is about to make
    genReq,        \* GenerateWindowsPassword: its request and its local username
    instance,      \* the metadata items Instances.Get returned
    metadata,      \* the metadata items GenerateWindowsPassword hands to SetMetadata
    result,        \* the WindowsPasswordResult GenerateWindowsPassword returned
    clearPc,       \* ClearStoppedTunnels: "idle", "loop" (it holds the lock), "returned"
    clearTodo,     \* ClearStoppedTunnels: the keys its range has not come to yet
    count,         \* ClearStoppedTunnels: its local count
    clearAt,       \* the registry and its stopped sessions when the call took the lock
    conns,         \* the handleConnection tasks spawned, in the order of their spawning
    acceptErrs,    \* the errors Accept has returned so far
    freePort,      \* a GetFreePort call: its position, attempts, port and result
    favorites,     \* a.config.Favorites
    configMu,      \* a.configMu: the AddFavorite call holding it, or 0
    disk,          \* the favorites in the configuration file
    adds,          \* the AddFavorite calls: position and locals
    threads,       \* the goroutines taking locks: operation, position, session
    tunnelsMu,     \* a.tunnelsMu: its writer, its readers, the writers waiting
    logsMu         \* per session: the goroutine holding its logsMu, or 0

\* The variables of pollForWindowsPassword.
pollVars == <<serial, pollPc, elapsed, interval, pollRet>>

\* The variables of GenerateWindowsPassword.
genVars == <<genPc, genReq, instance, metadata, result>>

\* The variables of a ClearStoppedTunnels call that is followed statement by
\* statement.
clearVars == <<clearPc, clearTodo, count, clearAt>>

\* The variables of the accept loops followed statement by statement and of
\* handleConnection.
connVars == <<conns, acceptErrs>>

\* The variables of the operations other than the tunnel manager's and the poll.
\* The variables of GetFreePort followed statement by statement, of
\* AddFavorite and of the locks of the tunnel manager.
freePortVars == <<freePort>>
favVars == <<favorites, configMu, disk, adds>>
lockVars == <<threads, tunnelsMu, logsMu>>
moreVars == <<freePortVars, favVars, lockVars>>

restVars == <<genVars, clearVars, connVars, moreVars>>

\* The variables of the tunnel manager.
tunnelVars == <<tokenSource, heap, tunnels, call, ret, runPc, acceptPc, stops,
                shutPc, shutPending, shutTargets, shutBranch, logN, held>>

vars == <<tokenSource, heap, tunnels, call, ret, runPc, acceptPc, stops,
          shutPc, shutPending, shutTargets, shutBranch, logN, held,
          serial, pollPc, elapsed, interval, pollRet,
          genPc, genReq, instance, metadata, result,
          clearPc, clearTodo, count, clearAt, conns, acceptErrs,
          freePort, favorites, configMu, disk, adds, threads, tunnelsMu, logsMu>>

Objs == 1..Len(heap)

Live(status) == status = "running" \/ status = "starting"

\* ------------------------------------------------------------ Tunnel.addLog
\* addLog with the wrong end kept: t.Logs = t.Logs[:100].
addLogKeepFirst(logs, entry) ==
    LET appended == Append(logs, entry)
    IN  IF Len(appended) > LogCap THEN SubSeq(appended, 1, LogCap) ELSE appended

\* t.Logs = append(t.Logs, entry); if len(t.Logs) > 100 { keep the last 100 }
addLog(logs, entry) ==
    LET appended == Append(logs, entry)
    IN  IF Len(appended) > LogCap
        THEN SubSeq(appended, Len(appended) - LogCap + 1, Len(appended))
        ELSE appended

SetLogs(t, msg) == [t EXCEPT !.Logs = addLog(t.Logs, msg)]

\* ------------------------------------------------------------ Tunnel.toInfo
\* t.StartedAt.Format(time.RFC3339): the layout "2006-01-02T15:04:05Z07:00" has
\* no fraction of a second, so the text is the second the instant falls in.
\* An instant is a count of clock ticks, TicksPerSecond of them to the second.
FormatRFC3339(t) == t \div TicksPerSecond

\* toInfo returning the tunnel's own Logs slice instead of a copy.
toInfoSharedLogs(h, o) ==
    [ID |-> h[o].ID, LocalPort |-> h[o].LocalPort, Status |-> h[o].Status,
     StartedAt |-> FormatRFC3339(h[o].StartedAt), Logs |-> h[o].Logs, shares |-> o]

\* The TunnelInfo of the Tunnel object o of the heap h.  The scalar fields are
\* copied; Logs is a new array (shares = 0: it is the array of no Tunnel) with
\* the elements of t.Logs copied into it.
toInfo(h, o) ==
    [ID |-> h[o].ID, LocalPort |-> h[o].LocalPort, Status |-> h[o].Status,
     StartedAt |-> FormatRFC3339(h[o].StartedAt), Logs |-> h[o].Logs, shares |-> 0]

\* What a reader of the TunnelInfo finds in its Logs: the copied elements, or,
\* were the array shared with a Tunnel, what that Tunnel's log holds now.
InfoLogs(info) == IF info.shares = 0 THEN info.Logs ELSE heap[info.shares].Logs

\* isPortInUse counting the sessions in state "running" only.
isPortInUseRunningOnly(port) ==
    \E id \in DOMAIN tunnels :
        /\ heap[tunnels[id]].LocalPort = port
        /\ heap[tunnels[id]].Status = "running"

\* ------------------------------------------------------------- isPortInUse
isPortInUse(port) ==
    \E id \in DOMAIN tunnels :
        /\ heap[tunnels[id]].LocalPort = port
        /\ Live(heap[tunnels[id]].Status)

\* A listener of this program is open on the port: net.Listen on it fails.
PortBound(port) ==
    \E o \in Objs : heap[o].listener = "open" /\ heap[o].LocalPort = port

\* -------------------------------------------------------------- GetFreePort
\* The outcomes of GetFreePort from its attempts-th iteration on.  An iteration:
\* net.Listen("127.0.0.1:0") fails (return the error), or the OS hands out a port
\* no listener holds, which is returned unless isPortInUse, and then the loop
\* goes on; after MaxAttempts iterations the allocation failure.
RECURSIVE GetFreePortFrom(_)
GetFreePortFrom(attempts) ==
    IF attempts >= MaxAttempts
    THEN {[err |-> "failed to find free port after multiple attempts",
           port |-> 0, attempts |-> attempts]}
    ELSE LET offered == {p \in Ports : ~PortBound(p)}
         IN  {[err |-> "listen failed", port |-> 0, attempts |-> attempts + 1]}
             \cup {[err |-> "nil", port |-> p, attempts |-> attempts + 1] :
                      p \in {q \in offered : ~isPortInUse(q)}}
             \cup (IF \E q \in offered : isPortInUse(q)
                   THEN GetFreePortFrom(attempts + 1) ELSE {})

GetFreePort == GetFreePortFrom(0)

\* ---------------------------------------------------------------- results
\* op: the method that returned; err: its error ("nil": none); port: the port the
\* error names, or the tunnel's; alt: the suggested port; id: the tunnel ID the
\* call was about.
NoResult == [op |-> "none", err |-> "none", port |-> 0, alt |-> 0, id |-> 0]

\* What StartTunnelWithRemotePort returns.
Result(err, port, alt, id) ==
    [op |-> "StartTunnelWithRemotePort", err |-> err, port |-> port, alt |-> alt,
     id |-> id]

\* What a method with a tunnel ID for argument returns.
IdResult(op, err, id) == [op |-> op, err |-> err, port |-> 0, alt |-> 0, id |-> id]

IdleCall == [pc |-> "idle", localPort |-> 0, port |-> 0, tunnelID |-> 0]

Return(c, res) ==
    /\ call' = [call EXCEPT ![c] = [IdleCall EXCEPT !.pc = "returned"]]
    /\ ret' = res

\* time.Now().UnixNano() in the tunnel ID, as its rank among the readings made for
\* tunnel IDs.  The wall clock has a resolution and can be set back, so a reading
\* is a later value than every earlier reading or the value of an earlier one.
UnixNano == 1..(Cardinality({c \in Calls : call[c].pc # "idle"}) + 1)

\* time.Now() in StartedAt, read when the Tunnel struct is built: the rank of the
\* tunnel among the tunnels built.
StartedNow == Len(heap) + 1

\* No credential reset is under way.
PollIdle ==
    /\ serial = <<>>
    /\ pollPc = "idle"
    /\ elapsed = 0
    /\ interval = 0
    /\ pollRet = [err |-> "none", password |-> 0, detail |-> ""]

\* A WindowsPasswordResult; the Password 0 is the empty text.
WindowsPasswordResult(success, username, password, error, saved, updated) ==
    [Success |-> success, Username |-> username, Password |-> password,
     Error |-> error, KeychainSaved |-> saved, BookmarkUpdated |-> updated]

NoRequest == [found |-> FALSE, Username |-> "", SaveToKeychain |-> FALSE,
              UpdateBookmark |-> FALSE, username |-> ""]

\* No GenerateWindowsPassword call has been made.
GenIdle ==
    /\ genPc = "idle"
    /\ genReq = NoRequest
    /\ instance = <<>>
    /\ metadata = <<>>
    /\ result = WindowsPasswordResult(FALSE, "", 0, "", FALSE, FALSE)

\* No GetFreePort call is being followed.
IdleFreePort == [pc |-> "idle", attempts |-> 0, port |-> 0, err |-> "none"]

Adders == 1..MaxAdds
VMs == 1..MaxVMs
IdleAdd == [pc |-> "idle", vm |-> 0, localPort |-> 0, err |-> "none",
            at |-> 0, ranged |-> <<>>]

Threads == 1..MaxThreads
IdleThread == [op |-> "none", pc |-> 0, tunnel |-> 0]

MoreIdle ==
    /\ freePort = IdleFreePort
    /\ favorites = <<>>
    /\ configMu = 0
    /\ disk = <<>>
    /\ adds = [c \in Adders |-> IdleAdd]
    /\ threads = [th \in Threads |-> IdleThread]
    /\ tunnelsMu = [writer |-> 0, readers |-> {}, waiting |-> {}]
    /\ logsMu = [t \in Calls |-> 0]

\* The operations other than the tunnel manager's and the poll have not begun.
RestIdle ==
    /\ GenIdle
    /\ clearPc = "idle"
    /\ clearTodo = {}
    /\ count = 0
    /\ clearAt = [reg |-> <<>>, dead |-> {}]
    /\ conns = <<>>
    /\ acceptErrs = 0
    /\ MoreIdle

Init ==
    /\ tokenSource \in {"nil", "set"}
    /\ heap = <<>>
    /\ tunnels = <<>>
    /\ call = [c \in Calls |-> IdleCall]
    /\ ret = NoResult
    /\ runPc = <<>>
    /\ acceptPc = <<>>
    /\ stops = <<>>
    /\ shutPc = "idle"
    /\ shutPending = {}
    /\ shutTargets = {}
    /\ shutBranch = "none"
    /\ logN = 0
    /\ held = <<>>
    /\ PollIdle
    /\ RestIdle

\* ------------------------------------------- StartTunnelWithRemotePort
\* The entry without the authentication check.
StartCallUnchecked(c, localPort) ==
    /\ call[c].pc = "idle"
    /\ shutPc = "idle"
    /\ IF c = 1 THEN TRUE ELSE call[c - 1].pc # "idle"
    /\ \E now \in UnixNano :
          call' = [call EXCEPT ![c].pc = IF localPort = 0 THEN "getFree"
                                        ELSE "checkPort",
                              ![c].localPort = localPort,
                              ![c].port = localPort,
                              ![c].tunnelID = now]
    /\ UNCHANGED ret
    /\ UNCHANGED <<tokenSource, heap, tunnels, runPc, acceptPc, stops,
                   shutPc, shutPending, shutTargets, shutBranch, logN, held,
                   pollVars, restVars>>

\* Entry: the authentication check, the tunnel ID from time.Now().UnixNano(),
\* and the choice between GetFreePort (localPort = 0) and isPortInUse.
StartCall(c, localPort) ==
    /\ call[c].pc = "idle"
    /\ shutPc = "idle"
    /\ IF c = 1 THEN TRUE ELSE call[c - 1].pc # "idle"
    /\ \/ /\ tokenSource = "nil"
          /\ Return(c, Result("not authenticated", 0, 0, 0))
       \/ /\ tokenSource # "nil"
          /\ \E now \in UnixNano :
                call' = [call EXCEPT ![c].pc = IF localPort = 0 THEN "getFree"
                                              ELSE "checkPort",
                                    ![c].localPort = localPort,
                                    ![c].port = localPort,
                                    ![c].tunnelID = now]
          /\ UNCHANGED ret
    /\ UNCHANGED <<tokenSource, heap, tunnels, runPc, acceptPc, stops,
                   shutPc, shutPending, shutTargets, shutBranch, logN, held,
                   pollVars, restVars>>

\* localPort == 0: localPort, err = a.GetFreePort()
AllocPort(c) ==
    /\ call[c].pc = "getFree"
    /\ \E r \in GetFreePort :
          IF r.err = "nil"
          THEN /\ call' = [call EXCEPT ![c].pc = "probe", ![c].port = r.port]
               /\ UNCHANGED ret
          ELSE Return(c, Result("failed to find free port", 0, 0, 0))
    /\ UNCHANGED <<tokenSource, heap, tunnels, runPc, acceptPc, stops,
                   shutPc, shutPending, shutTargets, shutBranch, logN, held,
                   pollVars, restVars>>

\* localPort != 0: if a.isPortInUse(localPort) look for an alternative to suggest.
CheckPort(c) ==
    /\ call[c].pc = "checkPort"
    /\ call' = [call EXCEPT ![c].pc = IF isPortInUse(call[c].localPort)
                                      THEN "suggest" ELSE "probe"]
    /\ UNCHANGED ret
    /\ UNCHANGED <<tokenSource, heap, tunnels, runPc, acceptPc, stops,
                   shutPc, shutPending, shutTargets, shutBranch, logN, held,
                   pollVars, restVars>>

\* The collision branch substituting the free port: it goes on to start the
\* tunnel on the port GetFreePort found.
SuggestPortSubstitute(c) ==
    /\ call[c].pc = "suggest"
    /\ \E r \in GetFreePort :
          IF r.err = "nil"
          THEN /\ call' = [call EXCEPT ![c].pc = "probe", ![c].port = r.port]
               /\ UNCHANGED ret
          ELSE Return(c, Result("port in use, failed to find alternative",
                                call[c].localPort, 0, 0))
    /\ UNCHANGED <<tokenSource, heap, tunnels, runPc, acceptPc, stops,
                   shutPc, shutPending, shutTargets, shutBranch, logN, held,
                   pollVars, restVars>>

\* The collision branch: freePort, err := a.GetFreePort(); both outcomes return an
\* error naming localPort, one with the suggestion and one without.
SuggestPort(c) ==
    /\ call[c].pc = "suggest"
    /\ \E r \in GetFreePort :
          IF r.err = "nil"
          THEN Return(c, Result("port in use, suggested alternative",
                                call[c].localPort, r.port, 0))
          ELSE Return(c, Result("port in use, failed to find alternative",
                                call[c].localPort, 0, 0))
    /\ UNCHANGED <<tokenSource, heap, tunnels, runPc, acceptPc, stops,
                   shutPc, shutPending, shutTargets, shutBranch, logN, held,
                   pollVars, restVars>>

\* A probe whose failure is recorded as a session in state "error".
ProbePortRecordsError(c) ==
    /\ call[c].pc = "probe"
    /\ \/ /\ Return(c, Result("port not available", call[c].port, 0, 0))
          /\ heap' = Append(heap, [ID |-> call[c].tunnelID, LocalPort |-> call[c].port,
                                   Status |-> "error", StartedAt |-> Len(heap) + 1,
                                   Logs |-> <<>>, listener |-> "nil",
                                   cancelled |-> FALSE])
          /\ tunnels' = [k \in DOMAIN tunnels \cup {call[c].tunnelID} |->
                            IF k = call[c].tunnelID THEN Len(heap) + 1 ELSE tunnels[k]]
          /\ runPc' = Append(runPc, "done")
          /\ acceptPc' = Append(acceptPc, "none")
          /\ stops' = Append(stops, 0)
       \/ /\ ~PortBound(call[c].port)
          /\ call' = [call EXCEPT ![c].pc = "register"]
          /\ UNCHANGED <<ret, heap, tunnels, runPc, acceptPc, stops>>
    /\ UNCHANGED <<tokenSource, shutPc, shutPending, shutTargets, shutBranch, logN, held,
                   pollVars, restVars>>

\* The test listener on 127.0.0.1:localPort, closed at once.
ProbePort(c) ==
    /\ call[c].pc = "probe"
    /\ \/ Return(c, Result("port not available", call[c].port, 0, 0))
       \/ /\ ~PortBound(call[c].port)
          /\ call' = [call EXCEPT ![c].pc = "register"]
          /\ UNCHANGED ret
    /\ UNCHANGED <<tokenSource, heap, tunnels, runPc, acceptPc, stops,
                   shutPc, shutPending, shutTargets, shutBranch, logN, held,
                   pollVars, restVars>>

NewTunnel(c) ==
    [ID |-> call[c].tunnelID, LocalPort |-> call[c].port, Status |-> "starting",
     StartedAt |-> StartedNow, Logs |-> <<>>, listener |-> "nil", cancelled |-> FALSE]

Store(reg, id, o) ==
    [k \in DOMAIN reg \cup {id} |-> IF k = id THEN o ELSE reg[k]]

\* The Tunnel struct is built (StartedAt from time.Now), a.tunnels[tunnelID] =
\* tunnel under the lock, go a.runTunnel, return tunnel.toInfo().
Register(c) ==
    /\ call[c].pc = "register"
    /\ heap' = Append(heap, NewTunnel(c))
    /\ tunnels' = Store(tunnels, call[c].tunnelID, Len(heap) + 1)
    /\ runPc' = Append(runPc, "start")
    /\ acceptPc' = Append(acceptPc, "none")
    /\ stops' = Append(stops, 0)
    /\ Return(c, Result("nil", call[c].port, 0, call[c].tunnelID))
    /\ held' = <<toInfo(heap', Len(heap'))>>
    /\ UNCHANGED <<tokenSource, shutPc, shutPending, shutTargets, shutBranch, logN,
                   pollVars, restVars>>

\* ----------------------------------------------------------------- runTunnel
\* runTunnel leaving the status alone once the listener is bound.
BoundStatusKept == "starting"

\* The status runTunnel sets once the listener is bound.
BoundStatus == "running"

\* runTunnel leaving the status alone when net.Listen fails.
ListenErrorStatusKept == "starting"

\* The status runTunnel sets when net.Listen fails.
ListenErrorStatus == "error"

\* addLog("Starting tunnel ..."), then net.Listen on the tunnel's port.  On failure
\* Status = "error", addLog, return; on success tunnel.listener = listener.
RunListen(o) ==
    /\ runPc[o] = "start"
    /\ \/ /\ heap' = [heap EXCEPT ![o] =
                        SetLogs([SetLogs(heap[o], "Starting tunnel")
                                    EXCEPT !.Status = ListenErrorStatus],
                                "Failed to create listener")]
          /\ runPc' = [runPc EXCEPT ![o] = "done"]
       \/ /\ ~PortBound(heap[o].LocalPort)
          /\ heap' = [heap EXCEPT ![o] =
                        [SetLogs(heap[o], "Starting tunnel")
                            EXCEPT !.listener = "open"]]
          /\ runPc' = [runPc EXCEPT ![o] = "bound"]
    /\ UNCHANGED <<tokenSource, tunnels, call, ret, acceptPc, stops,
                   shutPc, shutPending, shutTargets, shutBranch, logN, held,
                   pollVars, restVars>>

\* tunnel.Status = "running", addLog("Listening on ..."), go accept loop.
RunSetRunning(o) ==
    /\ runPc[o] = "bound"
    /\ heap' = [heap EXCEPT ![o] =
                  SetLogs([heap[o] EXCEPT !.Status = BoundStatus], "Listening on")]
    /\ runPc' = [runPc EXCEPT ![o] = "wait"]
    /\ acceptPc' = [acceptPc EXCEPT ![o] = "run"]
    /\ UNCHANGED <<tokenSource, tunnels, call, ret, stops,
                   shutPc, shutPending, shutTargets, shutBranch, logN, held,
                   pollVars, restVars>>

\* <-ctx.Done(); tunnel.Status = "stopped"; addLog("Tunnel stopped"); listener.Close()
RunStopped(o) ==
    /\ runPc[o] = "wait"
    /\ heap[o].cancelled
    /\ heap' = [heap EXCEPT ![o] =
                  [SetLogs([heap[o] EXCEPT !.Status = "stopped"], "Tunnel stopped")
                      EXCEPT !.listener = "closed"]]
    /\ runPc' = [runPc EXCEPT ![o] = "done"]
    /\ UNCHANGED <<tokenSource, tunnels, call, ret, acceptPc, stops,
                   shutPc, shutPending, shutTargets, shutBranch, logN, held,
                   pollVars, restVars>>

\* The accept loop leaves: listener.Accept() returned an error (the listener was
\* closed, or the accept failed) and ctx is done.
AcceptExit(o) ==
    /\ acceptPc[o] = "run"
    /\ heap[o].cancelled
    /\ acceptPc' = [acceptPc EXCEPT ![o] = "exited"]
    /\ UNCHANGED <<tokenSource, heap, tunnels, call, ret, runPc, stops,
                   shutPc, shutPending, shutTargets, shutBranch, logN, held,
                   pollVars, restVars>>

\* ------------------------------------------------------- stopTunnelInternal
CloseListener(t) ==
    IF t.listener # "nil" THEN [t EXCEPT !.listener = "closed"] ELSE t

\* tunnel.cancel(); if tunnel.listener != nil { Close() }; tunnel.Status = "stopped"
stopTunnelInternal(t) ==
    [CloseListener([t EXCEPT !.cancelled = TRUE]) EXCEPT !.Status = "stopped"]

\* ---------------------------------------------------------------- StopTunnel
\* StopTunnel, RemoveTunnel and GetTunnel return an error to their caller; what the
\* caller keeps of it (ret) is said by the specification the call is made in.
StopTunnelErr(reg, id) == IF id \in DOMAIN reg THEN "nil" ELSE "tunnel not found"

\* StopTunnel that leaves the status alone when there is no listener to close.
StopTunnelHeapNoListener(h, reg, id) ==
    IF id \in DOMAIN reg
    THEN [h EXCEPT ![reg[id]] =
            IF h[reg[id]].listener = "nil"
            THEN [h[reg[id]] EXCEPT !.cancelled = TRUE]
            ELSE [h[reg[id]] EXCEPT !.cancelled = TRUE, !.listener = "closed",
                                    !.Status = "stopped"]]
    ELSE h

\* StopTunnel with one cancellation signal shared by all the tunnels.
StopTunnelHeapSharedCancel(h, reg, id) ==
    IF id \in DOMAIN reg
    THEN [o \in DOMAIN h |->
            IF o = reg[id]
            THEN [CloseListener([h[o] EXCEPT !.cancelled = TRUE])
                     EXCEPT !.Status = "stopped"]
            ELSE [h[o] EXCEPT !.cancelled = TRUE]]
    ELSE h

\* The Tunnel objects after StopTunnel(id): the body of StopTunnel is the body of
\* stopTunnelInternal written out.
StopTunnelHeap(h, reg, id) ==
    IF id \in DOMAIN reg
    THEN [h EXCEPT ![reg[id]] =
            [CloseListener([h[reg[id]] EXCEPT !.cancelled = TRUE])
                EXCEPT !.Status = "stopped"]]
    ELSE h

StopTunnel(id) ==
    /\ shutPc = "idle"
    /\ heap' = StopTunnelHeap(heap, tunnels, id)
    /\ stops' = IF StopTunnelErr(tunnels, id) = "nil" /\ stops[tunnels[id]] < 2
                THEN [stops EXCEPT ![tunnels[id]] = @ + 1]
                ELSE stops
    /\ UNCHANGED <<tokenSource, tunnels, call, runPc, acceptPc,
                   shutPc, shutPending, shutTargets, shutBranch, logN, held,
                   pollVars, restVars>>

\* ------------------------------------------------------------ StopAllTunnels
LiveIds == {id \in DOMAIN tunnels : Live(heap[tunnels[id]].Status)}

StopAllTunnels ==
    /\ shutPc = "idle"
    /\ heap' = [o \in Objs |->
                  IF \E id \in LiveIds : tunnels[id] = o
                  THEN stopTunnelInternal(heap[o]) ELSE heap[o]]
    /\ UNCHANGED <<tokenSource, tunnels, call, ret, runPc, acceptPc, stops,
                   shutPc, shutPending, shutTargets, shutBranch, logN, held,
                   pollVars, restVars>>

\* -------------------------------------------------------------- RemoveTunnel
Delete(reg, ids) == [k \in DOMAIN reg \ ids |-> reg[k]]

\* RemoveTunnel that refuses "running" tunnels only.
RemoveTunnelErrRunningOnly(id) ==
    IF id \notin DOMAIN tunnels THEN "tunnel not found"
    ELSE IF heap[tunnels[id]].Status = "running"
         THEN "cannot remove active tunnel, stop it first"
         ELSE "nil"

RemoveTunnelErr(id) ==
    IF id \notin DOMAIN tunnels THEN "tunnel not found"
    ELSE IF Live(heap[tunnels[id]].Status)
         THEN "cannot remove active tunnel, stop it first"
         ELSE "nil"

RemoveTunnel(id) ==
    /\ shutPc = "idle"
    /\ tunnels' = IF RemoveTunnelErr(id) = "nil" THEN Delete(tunnels, {id}) ELSE tunnels
    /\ UNCHANGED <<tokenSource, heap, call, runPc, acceptPc, stops,
                   shutPc, shutPending, shutTargets, shutBranch, logN, held,
                   pollVars, restVars>>

\* ----------------------------------------------------------------- GetTunnel
\* GetTunnel that answers for every ID.
GetTunnelErrNever(id) == "nil"

GetTunnelErr(id) == IF id \in DOMAIN tunnels THEN "nil" ELSE "tunnel not found"

\* return tunnel.toInfo(), nil, or nil and the error.
GetTunnelInfos(id) ==
    IF id \in DOMAIN tunnels THEN <<toInfo(heap, tunnels[id])>> ELSE <<>>

\* GetTunnel reads under the read lock and changes nothing of the program; its
\* results are GetTunnelErr and GetTunnelInfos.
GetTunnel(id) ==
    /\ shutPc = "idle"
    /\ UNCHANGED <<tokenSource, heap, tunnels, call, runPc, acceptPc, stops,
                   shutPc, shutPending, shutTargets, shutBranch, logN, pollVars, restVars>>

\* ---------------------------------------------------------------- GetTunnels
\* The orders in which the keys of the registry can stand in the slice once
\* sort.Slice has returned: the range over the map appends them in any order, and
\* the sort leaves them with the StartedAt texts descending, elements with equal
\* texts in any order (sort.Slice is not stable).
SortedKeys ==
    LET n == Cardinality(DOMAIN tunnels)
        text(id) == FormatRFC3339(heap[tunnels[id]].StartedAt)
    IN  {f \in [1..n -> DOMAIN tunnels] :
            /\ \A i \in 1..n, j \in 1..n : i # j => f[i] # f[j]
            /\ \A i \in 1..n, j \in 1..n : i < j => text(f[i]) >= text(f[j])}

\* The slices GetTunnels can return.
GetTunnelsResults ==
    {[i \in DOMAIN f |-> toInfo(heap, tunnels[f[i]])] : f \in SortedKeys}

\* GetTunnels reads under the read lock and changes nothing of the program; the
\* caller receives one of GetTunnelsResults.
GetTunnels ==
    /\ shutPc = "idle"
    /\ \E r \in GetTunnelsResults : held' = r
    /\ UNCHANGED <<tokenSource, heap, tunnels, call, ret, runPc, acceptPc, stops,
                   shutPc, shutPending, shutTargets, shutBranch, logN, pollVars, restVars>>

\* ------------------------------------------------------- ClearStoppedTunnels
DeadIds == {id \in DOMAIN tunnels : heap[tunnels[id]].Status \in {"stopped", "error"}}

ClearStoppedTunnels ==
    /\ shutPc = "idle"
    /\ tunnels' = Delete(tunnels, DeadIds)
    /\ UNCHANGED <<tokenSource, heap, call, ret, runPc, acceptPc, stops,
                   shutPc, shutPending, shutTargets, shutBranch, logN, held,
                   pollVars, restVars>>

\* ------------------------------------------------------------------ shutdown
\* Under the lock: one goroutine running stopTunnelInternal per tunnel that is
\* "running" or "starting", each counted in the WaitGroup.
ShutdownBegin ==
    /\ shutPc = "idle"
    /\ shutPc' = "waiting"
    /\ shutPending' = {tunnels[id] : id \in LiveIds}
    /\ shutTargets' = {tunnels[id] : id \in LiveIds}
    /\ UNCHANGED <<tokenSource, heap, tunnels, call, ret, runPc, acceptPc, stops,
                   shutBranch, logN, held,
                   pollVars, restVars>>

\* One of those goroutines: a.stopTunnelInternal(tunnel); wg.Done().
ShutdownWorker(o) ==
    /\ o \in shutPending
    /\ heap' = [heap EXCEPT ![o] = stopTunnelInternal(heap[o])]
    /\ shutPending' = shutPending \ {o}
    /\ UNCHANGED <<tokenSource, tunnels, call, ret, runPc, acceptPc, stops,
                   shutPc, shutTargets, shutBranch, logN, held,
                   pollVars, restVars>>

\* case <-done: wg.Wait() has returned, every stop goroutine has finished.
ShutdownGraceful ==
    /\ shutPc = "waiting"
    /\ shutPending = {}
    /\ shutPc' = "returned"
    /\ shutBranch' = "graceful"
    /\ UNCHANGED <<tokenSource, heap, tunnels, call, ret, runPc, acceptPc, stops,
                   shutPending, shutTargets, logN, held,
                   pollVars, restVars>>

\* shutdown without a timeout: select has the done branch only.
TimeoutNever == FALSE

\* The select of shutdown can take its timeout branch: shutdownCtx's timer fires
\* 5 seconds after shutdown began, whatever the stop goroutines are doing.
TimeoutCanFire == shutPc = "waiting"

\* case <-shutdownCtx.Done(): under the lock, close every listener that is set.
ShutdownTimeout ==
    /\ TimeoutCanFire
    /\ heap' = [o \in Objs |->
                  IF \E id \in DOMAIN tunnels : tunnels[id] = o
                  THEN CloseListener(heap[o]) ELSE heap[o]]
    /\ shutPc' = "returned"
    /\ shutBranch' = "timeout"
    /\ UNCHANGED <<tokenSource, tunnels, call, ret, runPc, acceptPc, stops,
                   shutPending, shutTargets, logN, held,
                   pollVars, restVars>>

\* -------------------------------------------------------------- specification
Next ==
    \/ \E c \in Calls, localPort \in 0..MaxPort : StartCall(c, localPort)
    \/ \E c \in Calls : AllocPort(c)
    \/ \E c \in Calls : CheckPort(c)
    \/ \E c \in Calls : SuggestPort(c)
    \/ \E c \in Calls : ProbePort(c)
    \/ \E c \in Calls : Register(c)
    \/ \E o \in Objs : RunListen(o)
    \/ \E o \in Objs : RunSetRunning(o)
    \/ \E o \in Objs : RunStopped(o)
    \/ \E o \in Objs : AcceptExit(o)
    \/ \E id \in IDs : StopTunnel(id) /\ UNCHANGED ret
    \/ StopAllTunnels
    \/ \E id \in IDs : RemoveTunnel(id) /\ UNCHANGED ret
    \/ ClearStoppedTunnels
    \/ ShutdownBegin
    \/ \E o \in Objs : ShutdownWorker(o)
    \/ ShutdownGraceful
    \/ ShutdownTimeout

Spec == Init /\ [][Next]_vars

\* The timer of shutdownCtx fires: the Go runtime delivers it 5 seconds after
\* shutdown began, and every critical section on a.tunnelsMu is finite, so the
\* timeout branch is taken if shutdown is still waiting.  Nothing is assumed of
\* the stop goroutines, of runTunnel or of the accept loops.
FairSpec == Spec /\ WF_vars(ShutdownTimeout)

\* ---------------------------------------------------------- AutoPortFairSpec
\* Sessions started with localPort 0 (the port comes from GetFreePort), their
\* goroutines, and StopTunnel.  The Go scheduler runs every goroutine that can
\* run, so a runTunnel goroutine gets to its net.Listen and, once the listener is
\* bound, to the statements after it.  Nothing is assumed of the outcome of
\* net.Listen.
AutoPortNext ==
    \/ \E c \in Calls : StartCall(c, 0)
    \/ \E c \in Calls : AllocPort(c)
    \/ \E c \in Calls : ProbePort(c)
    \/ \E c \in Calls : Register(c)
    \/ \E o \in Objs : RunListen(o)
    \/ \E o \in Objs : RunSetRunning(o)
    \/ \E o \in Objs : RunStopped(o)
    \/ \E o \in Objs : AcceptExit(o)
    \/ \E id \in IDs : StopTunnel(id) /\ UNCHANGED ret

AutoPortFairSpec ==
    /\ Init
    /\ [][AutoPortNext]_vars
    /\ \A o \in 1..MaxCalls :
          /\ WF_vars(o \in Objs /\ RunListen(o))
          /\ WF_vars(o \in Objs /\ RunSetRunning(o))

\* -------------------------------------------------------------- StopFairSpec
\* The same sessions, with every goroutine of a session running when it can:
\* runTunnel gets past <-ctx.Done() once the context is cancelled, and the accept
\* loop gets the error of its Accept once the listener is closed.
StopFairSpec ==
    /\ AutoPortFairSpec
    /\ \A o \in 1..MaxCalls :
          /\ WF_vars(o \in Objs /\ RunStopped(o))
          /\ WF_vars(o \in Objs /\ AcceptExit(o))

\* ------------------------------------------------------------------- ApiSpec
\* The application while it runs, with a caller that keeps in ret what its latest
\* call returned: StartTunnelWithRemotePort, StopTunnel, RemoveTunnel or GetTunnel.
ApiNext ==
    \/ \E c \in Calls, localPort \in 0..MaxPort : StartCall(c, localPort)
    \/ \E c \in Calls : AllocPort(c)
    \/ \E c \in Calls : CheckPort(c)
    \/ \E c \in Calls : SuggestPort(c)
    \/ \E c \in Calls : ProbePort(c)
    \/ \E c \in Calls : Register(c)
    \/ \E o \in Objs : RunListen(o)
    \/ \E o \in Objs : RunSetRunning(o)
    \/ \E o \in Objs : RunStopped(o)
    \/ \E o \in Objs : AcceptExit(o)
    \/ \E id \in IDs :
          StopTunnel(id) /\ ret' = IdResult("StopTunnel", StopTunnelErr(tunnels, id), id)
    \/ \E id \in IDs :
          RemoveTunnel(id) /\ ret' = IdResult("RemoveTunnel", RemoveTunnelErr(id), id)
    \/ \E id \in IDs :
          /\ GetTunnel(id)
          /\ ret' = IdResult("GetTunnel", GetTunnelErr(id), id)
          /\ UNCHANGED held

ApiSpec == Init /\ [][ApiNext]_vars

\* ------------------------------------------------------------------ SnapSpec
\* The application while it runs, with a caller that keeps in held the TunnelInfo
\* values it last received, from StartTunnelWithRemotePort, GetTunnel or
\* GetTunnels, while sessions go on, are stopped and are removed.
SnapNext ==
    \/ \E c \in Calls, localPort \in 0..MaxPort : StartCall(c, localPort)
    \/ \E c \in Calls : AllocPort(c)
    \/ \E c \in Calls : CheckPort(c)
    \/ \E c \in Calls : SuggestPort(c)
    \/ \E c \in Calls : ProbePort(c)
    \/ \E c \in Calls : Register(c)
    \/ \E o \in Objs : RunListen(o)
    \/ \E o \in Objs : RunSetRunning(o)
    \/ \E o \in Objs : RunStopped(o)
    \/ \E o \in Objs : AcceptExit(o)
    \/ \E id \in IDs : StopTunnel(id) /\ UNCHANGED ret
    \/ \E id \in IDs : RemoveTunnel(id) /\ UNCHANGED ret
    \/ \E id \in IDs : GetTunnel(id) /\ held' = GetTunnelInfos(id) /\ UNCHANGED ret
    \/ GetTunnels

SnapSpec == Init /\ [][SnapNext]_vars

\* ------------------------------------------------------------------ ListSpec
\* GetTunnels on a registry of up to MaxCalls sessions, the i-th registered under
\* the ID i at an instant later than the one before it.  Each session is as
\* StartTunnelWithRemotePort left it ("starting") or as a StopTunnel that came
\* before its runTunnel goroutine left it ("stopped").
ListTunnel(i, at, stopped) ==
    [ID |-> i, LocalPort |-> i, Status |-> IF stopped THEN "stopped" ELSE "starting",
     StartedAt |-> at, Logs |-> <<>>, listener |-> "nil", cancelled |-> stopped]

ListInit ==
    /\ tokenSource = "set"
    /\ \E n \in 0..MaxCalls :
          /\ \E at \in [1..n -> 1..MaxTick], stopped \in [1..n -> BOOLEAN] :
                /\ \A i \in 1..n, j \in 1..n : i < j => at[i] < at[j]
                /\ heap = [i \in 1..n |-> ListTunnel(i, at[i], stopped[i])]
                /\ stops = [i \in 1..n |-> IF stopped[i] THEN 1 ELSE 0]
          /\ tunnels = [i \in 1..n |-> i]
          /\ call = [c \in Calls |-> IF c <= n THEN [IdleCall EXCEPT !.pc = "returned"]
                                     ELSE IdleCall]
          /\ ret = IF n = 0 THEN NoResult ELSE Result("nil", n, 0, n)
          /\ runPc = [i \in 1..n |-> "start"]
          /\ acceptPc = [i \in 1..n |-> "none"]
          /\ held = IF n = 0 THEN <<>> ELSE <<toInfo(heap, n)>>
    /\ shutPc = "idle"
    /\ shutPending = {}
    /\ shutTargets = {}
    /\ shutBranch = "none"
    /\ logN = 0
    /\ PollIdle
    /\ RestIdle

ListNext == GetTunnels

ListSpec == ListInit /\ [][ListNext]_vars

\* ---------------------------------------------------- pollForWindowsPassword
Moduli == 1..MaxModulus

\* The modulus of the key pair GenerateWindowsPassword made for this call and
\* published in the windows-keys metadata; privateKey is the key of that pair.
expectedModulus == 1

\* An EncryptedPassword: "" (kind "empty"), the base64 text of a text encrypted
\* to the public key with the modulus key (kind "payload"), or text that is not
\* base64 (kind "garbage").  The text 0 is the empty text; the text m is the
\* password the guest agent made for the holder of the key m.
NoPayload == [kind |-> "empty", key |-> 0, text |-> 0]
Garbage == [kind |-> "garbage", key |-> 0, text |-> 0]
Encrypted(m, text) == [kind |-> "payload", key |-> m, text |-> text]
Payload(m) == Encrypted(m, m)

\* A JSON object of the serial output.  hasKey: its text holds the key
\* "encryptedPassword"; parses: json.Unmarshal takes it.  The guest agent
\* answers a request with the modulus m by a payload encrypted to m or by an
\* error message, written with or without an empty "encryptedPassword".  The
\* output is not the agent's alone: an entry can also carry a payload encrypted
\* to another key than its modulus names, or a payload beside a message.
Entry(m, enc, msg, hasKey, parses) ==
    [modulus |-> m, enc |-> enc, errorMessage |-> msg, hasKey |-> hasKey,
     parses |-> parses]

Entries ==
    {Entry(m, Payload(m), "", TRUE, TRUE) : m \in Moduli}
    \cup {Entry(m, Encrypted(m, 0), "", TRUE, TRUE) : m \in Moduli}
    \cup {Entry(m, Garbage, "", TRUE, TRUE) : m \in Moduli}
    \cup {Entry(mk[1], Payload(mk[2]), "", TRUE, TRUE) :
              mk \in {x \in Moduli \X Moduli : x[1] # x[2]}}
    \cup {Entry(m, Payload(m), "agent failed", TRUE, TRUE) : m \in Moduli}
    \cup {Entry(m, NoPayload, "agent failed", k, TRUE) : m \in Moduli, k \in BOOLEAN}
    \cup {Entry(m, NoPayload, "no such user", TRUE, TRUE) : m \in Moduli}
    \cup {Entry(m, NoPayload, "", TRUE, TRUE) : m \in Moduli}
    \cup {Entry(0, NoPayload, "", TRUE, FALSE)}

\* decryptWindowsPassword: base64.DecodeString, then rsa.DecryptOAEP with
\* privateKey, which gives back the text encrypted to the key of privateKey and
\* fails on anything else.
decryptWindowsPassword(enc, privateKey) ==
    IF enc.kind # "payload"
    THEN [err |-> "failed to decode encrypted password", password |-> 0]
    ELSE IF enc.key # privateKey
    THEN [err |-> "failed to decrypt", password |-> 0]
    ELSE [err |-> "nil", password |-> enc.text]

\* What pollForWindowsPassword returns: the password, and the error with the
\* text its format verb inserts (detail); err "nil" is no error.
PollResult(err, password, detail) ==
    [err |-> err, password |-> password, detail |-> detail]

NoPollResult == PollResult("none", 0, "")

\* The loop over the matches that answers for any modulus.
RECURSIVE ScanAnyModulus(_, _)
ScanAnyModulus(out, i) ==
    IF i > Len(out) THEN NoPollResult
    ELSE LET resp == out[i]
         IN  IF ~resp.hasKey \/ ~resp.parses THEN ScanAnyModulus(out, i + 1)
             ELSE IF resp.enc.kind # "empty"
             THEN LET d == decryptWindowsPassword(resp.enc, expectedModulus)
                  IN  IF d.err # "nil"
                      THEN PollResult("failed to decrypt password", 0, d.err)
                      ELSE PollResult("nil", d.password, "")
             ELSE IF resp.errorMessage # ""
             THEN PollResult("guest agent error", 0, resp.errorMessage)
             ELSE ScanAnyModulus(out, i + 1)

\* The loop over the matches that passes over an error response.
RECURSIVE ScanPastError(_, _)
ScanPastError(out, i) ==
    IF i > Len(out) THEN NoPollResult
    ELSE LET resp == out[i]
         IN  IF ~resp.hasKey \/ ~resp.parses THEN ScanPastError(out, i + 1)
             ELSE IF resp.modulus = expectedModulus /\ resp.enc.kind # "empty"
             THEN LET d == decryptWindowsPassword(resp.enc, expectedModulus)
                  IN  IF d.err # "nil"
                      THEN PollResult("failed to decrypt password", 0, d.err)
                      ELSE PollResult("nil", d.password, "")
             ELSE ScanPastError(out, i + 1)

\* The loop over the matches of jsonPattern in the output, from the i-th entry
\* on: what it makes pollForWindowsPassword return, or NoPollResult when it ends
\* without a return.  jsonPattern matches the objects holding the key
\* "encryptedPassword"; an object json.Unmarshal refuses is skipped.
RECURSIVE Scan(_, _)
\* The loop over the matches that looks at the error message first.
RECURSIVE ScanErrorFirst(_, _)
ScanErrorFirst(out, i) ==
    IF i > Len(out) THEN NoPollResult
    ELSE LET resp == out[i]
         IN  IF ~resp.hasKey \/ ~resp.parses THEN ScanErrorFirst(out, i + 1)
             ELSE IF resp.modulus = expectedModulus /\ resp.errorMessage # ""
             THEN PollResult("guest agent error", 0, resp.errorMessage)
             ELSE IF resp.modulus = expectedModulus /\ resp.enc.kind # "empty"
             THEN LET d == decryptWindowsPassword(resp.enc, expectedModulus)
                  IN  IF d.err # "nil"
                      THEN PollResult("failed to decrypt password", 0, d.err)
                      ELSE PollResult("nil", d.password, "")
             ELSE ScanErrorFirst(out, i + 1)

\* The loop over the matches that goes on to the next match when the payload
\* does not decrypt.
RECURSIVE ScanPastUndecryptable(_, _)
ScanPastUndecryptable(out, i) ==
    IF i > Len(out) THEN NoPollResult
    ELSE LET resp == out[i]
             d == decryptWindowsPassword(resp.enc, expectedModulus)
         IN  IF ~resp.hasKey \/ ~resp.parses THEN ScanPastUndecryptable(out, i + 1)
             ELSE IF /\ resp.modulus = expectedModulus
                     /\ resp.enc.kind # "empty"
                     /\ d.err = "nil"
             THEN PollResult("nil", d.password, "")
             ELSE IF /\ resp.modulus = expectedModulus
                     /\ resp.enc.kind = "empty"
                     /\ resp.errorMessage # ""
             THEN PollResult("guest agent error", 0, resp.errorMessage)
             ELSE ScanPastUndecryptable(out, i + 1)

Scan(out, i) ==
    IF i > Len(out) THEN NoPollResult
    ELSE LET resp == out[i]
         IN  IF ~resp.hasKey \/ ~resp.parses THEN Scan(out, i + 1)
             ELSE IF resp.modulus = expectedModulus /\ resp.enc.kind # "empty"
             THEN LET d == decryptWindowsPassword(resp.enc, expectedModulus)
                  IN  IF d.err # "nil"
                      THEN PollResult("failed to decrypt password", 0, d.err)
                      ELSE PollResult("nil", d.password, "")
             ELSE IF resp.modulus = expectedModulus /\ resp.errorMessage # ""
             THEN PollResult("guest agent error", 0, resp.errorMessage)
             ELSE Scan(out, i + 1)

\* The guest agent, or anything else on the VM, writes to serial port 4.
AgentWrites ==
    /\ Len(serial) < MaxEntries
    /\ \E e \in Entries : serial' = Append(serial, e)
    /\ UNCHANGED <<pollPc, elapsed, interval, pollRet, tunnelVars, restVars>>

\* startTime := time.Now(), interval := 2s.
PollBegin ==
    /\ pollPc = "idle"
    /\ pollPc' = "check"
    /\ elapsed' = 0
    /\ interval' = FirstInterval
    /\ UNCHANGED <<serial, pollRet, tunnelVars, restVars>>

\* The loop gives up one sleep early.
WithinBudgetEarly == elapsed + interval < Timeout

\* The loop runs once more when exactly the timeout has passed.
WithinBudgetInclusive == elapsed <= Timeout

\* time.Since(startTime) < timeout
WithinBudget == elapsed < Timeout

\* The loop condition; when it fails, the timeout error after the loop.
PollCheck ==
    /\ pollPc = "check"
    /\ IF WithinBudget
       THEN pollPc' = "fetch" /\ UNCHANGED pollRet
       ELSE pollPc' = "returned" /\ pollRet' = PollResult("timeout", 0, "")
    /\ UNCHANGED <<serial, elapsed, interval, tunnelVars, restVars>>

\* GetSerialPortOutput fails: time.Sleep(interval); continue.
PollFetchError ==
    /\ pollPc = "fetch"
    /\ \E d \in 0..MaxFetchTime : elapsed' = elapsed + d + interval
    /\ pollPc' = "check"
    /\ UNCHANGED <<serial, interval, pollRet, tunnelVars, restVars>>

\* GetSerialPortOutput returns the output; the loop over its matches returns
\* from pollForWindowsPassword or ends, and then the sleep comes.
PollFetch ==
    /\ pollPc = "fetch"
    /\ \E d \in 0..MaxFetchTime : elapsed' = elapsed + d
    /\ IF Scan(serial, 1) # NoPollResult
       THEN pollPc' = "returned" /\ pollRet' = Scan(serial, 1)
       ELSE pollPc' = "sleep" /\ UNCHANGED pollRet
    /\ UNCHANGED <<serial, interval, tunnelVars, restVars>>

\* A backoff that doubles the interval.
BackoffDoubling(i) == IF i < MaxInterval THEN 2 * i ELSE i

\* if interval < maxInterval { interval += time.Second }
Backoff(i) == IF i < MaxInterval THEN i + 1 ELSE i

\* time.Sleep(interval), then the backoff.
PollSleep ==
    /\ pollPc = "sleep"
    /\ elapsed' = elapsed + interval
    /\ interval' = Backoff(interval)
    /\ pollPc' = "check"
    /\ UNCHANGED <<serial, pollRet, tunnelVars, restVars>>

PollInit ==
    /\ tokenSource = "set"
    /\ heap = <<>>
    /\ tunnels = <<>>
    /\ call = [c \in Calls |-> IdleCall]
    /\ ret = NoResult
    /\ runPc = <<>>
    /\ acceptPc = <<>>
    /\ stops = <<>>
    /\ shutPc = "idle"
    /\ shutPending = {}
    /\ shutTargets = {}
    /\ shutBranch = "none"
    /\ logN = 0
    /\ held = <<>>
    /\ PollIdle
    /\ RestIdle

PollNext ==
    \/ AgentWrites
    \/ PollBegin
    \/ PollCheck
    \/ PollFetchError
    \/ PollFetch
    \/ PollSleep

PollSpec == PollInit /\ [][PollNext]_vars

\* The calls of the Compute API return, and the goroutine of the call runs:
\* every step of the loop is taken.
PollFairSpec ==
    /\ PollSpec
    /\ WF_vars(PollCheck)
    /\ WF_vars(PollFetch \/ PollFetchError)
    /\ WF_vars(PollSleep)

\* ------------------------------------------------------------------- LogSpec
\* One tunnel as StartTunnelWithRemotePort registers it, and addLog calls on it by
\* its goroutines, serialised by t.logsMu.  The n-th call appends the message n.
LogInit ==
    /\ tokenSource = "set"
    /\ heap = <<[ID |-> 1, LocalPort |-> 1, Status |-> "starting", StartedAt |-> 1,
                 Logs |-> <<>>, listener |-> "nil", cancelled |-> FALSE]>>
    /\ tunnels = <<1>>
    /\ call = [c \in Calls |-> IF c = 1 THEN [IdleCall EXCEPT !.pc = "returned"]
                               ELSE IdleCall]
    /\ ret = Result("nil", 1, 0, 1)
    /\ runPc = <<"start">>
    /\ acceptPc = <<"none">>
    /\ stops = <<0>>
    /\ shutPc = "idle"
    /\ shutPending = {}
    /\ shutTargets = {}
    /\ shutBranch = "none"
    /\ logN = 0
    /\ held = <<toInfo(heap, 1)>>
    /\ PollIdle
    /\ RestIdle

AddLogCall ==
    /\ logN < MaxAppends
    /\ logN' = logN + 1
    /\ heap' = [heap EXCEPT ![1] = SetLogs(heap[1], logN + 1)]
    /\ UNCHANGED <<tokenSource, tunnels, call, ret, runPc, acceptPc, stops,
                   shutPc, shutPending, shutTargets, shutBranch, held,
                   pollVars, restVars>>

LogNext == AddLogCall

LogSpec == LogInit /\ [][LogNext]_vars

\* ----------------------------------------------------------------- ClearSpec
\* ClearStoppedTunnels statement by statement, while the goroutines of the
\* sessions run.  The call holds a.tunnelsMu from its first statement to its
\* return, which keeps out the operations that take that lock; runTunnel takes no
\* lock for its writes of tunnel.Status and goes on.
ClearLock ==
    /\ clearPc \in {"idle", "returned"}
    /\ clearPc' = "loop"
    /\ clearTodo' = DOMAIN tunnels
    /\ count' = 0
    /\ clearAt' = [reg |-> tunnels, dead |-> DeadIds]
    /\ UNCHANGED <<tunnelVars, pollVars, genVars, connVars, moreVars>>

\* One pass of the range over a.tunnels: the status is read, and the key of a
\* "stopped" or "error" session is deleted and counted.
ClearVisit(id) ==
    /\ clearPc = "loop"
    /\ id \in clearTodo
    /\ clearTodo' = clearTodo \ {id}
    /\ IF id \in DeadIds
       THEN tunnels' = Delete(tunnels, {id}) /\ count' = count + 1
       ELSE UNCHANGED <<tunnels, count>>
    /\ UNCHANGED <<tokenSource, heap, call, ret, runPc, acceptPc, stops,
                   shutPc, shutPending, shutTargets, shutBranch, logN, held,
                   clearPc, clearAt, pollVars, genVars, connVars, moreVars>>

\* return count, and the deferred Unlock.
ClearReturn ==
    /\ clearPc = "loop"
    /\ clearTodo = {}
    /\ clearPc' = "returned"
    /\ UNCHANGED <<clearTodo, count, clearAt, tunnelVars, pollVars, genVars, connVars, moreVars>>

\* a.tunnelsMu is not held by ClearStoppedTunnels.
Unlocked == clearPc # "loop"

ClearNext ==
    \/ \E c \in Calls : StartCall(c, 0)
    \/ \E c \in Calls : Unlocked /\ AllocPort(c)
    \/ \E c \in Calls : ProbePort(c)
    \/ \E c \in Calls : Unlocked /\ Register(c)
    \/ \E o \in Objs : RunListen(o)
    \/ \E o \in Objs : RunSetRunning(o)
    \/ \E o \in Objs : RunStopped(o)
    \/ \E o \in Objs : AcceptExit(o)
    \/ \E id \in IDs : Unlocked /\ StopTunnel(id) /\ UNCHANGED ret
    \/ ClearLock
    \/ \E id \in IDs : ClearVisit(id)
    \/ ClearReturn

ClearSpec == Init /\ [][ClearNext]_vars

\* ------------------------------------------------------------------ ConnSpec
\* The accept loop of runTunnel statement by statement, and handleConnection.
\* acceptPc "run" is the loop inside listener.Accept(), "failed" the loop with the
\* error Accept returned, before its select.

\* The accept loop that leaves on any error of Accept.
AfterAcceptErrorExit(cancelled) == "exited"

\* select { case <-ctx.Done(): return; default: addLog, continue }
AfterAcceptError(cancelled) == IF cancelled THEN "exited" ELSE "run"

\* listener.Accept() returns an error: the listener is closed, or the accept
\* failed for a reason of the system.
AcceptFails(o) ==
    /\ acceptPc[o] = "run"
    /\ heap[o].cancelled \/ heap[o].listener = "closed" \/ acceptErrs < MaxAcceptErrors
    /\ acceptPc' = [acceptPc EXCEPT ![o] = "failed"]
    /\ acceptErrs' = IF acceptErrs < MaxAcceptErrors THEN acceptErrs + 1 ELSE acceptErrs
    /\ UNCHANGED <<tokenSource, heap, tunnels, call, ret, runPc, stops,
                   shutPc, shutPending, shutTargets, shutBranch, logN, held,
                   conns, pollVars, genVars, clearVars, moreVars>>

\* The select on the error: with ctx done the loop returns; otherwise the error
\* is logged and the loop goes back to Accept.
AcceptSelect(o) ==
    /\ acceptPc[o] = "failed"
    /\ acceptPc' = [acceptPc EXCEPT ![o] = AfterAcceptError(heap[o].cancelled)]
    /\ heap' = IF heap[o].cancelled THEN heap
               ELSE [heap EXCEPT ![o] = SetLogs(heap[o], "Accept error")]
    /\ UNCHANGED <<tokenSource, tunnels, call, ret, runPc, stops,
                   shutPc, shutPending, shutTargets, shutBranch, logN, held,
                   connVars, pollVars, genVars, clearVars, moreVars>>

\* The task go a.handleConnection(ctx, tunnel, conn) as it starts: before
\* iap.Dial, with the accepted connection open and no copy goroutine.
NewConn(o) ==
    [tunnel |-> o, pc |-> "dial", localConn |-> "open", iapConn |-> "nil",
     up |-> "none", down |-> "none"]

\* listener.Accept() returns a connection: addLog("New connection ..."), and the
\* handleConnection task is spawned.
AcceptConn(o) ==
    /\ acceptPc[o] = "run"
    /\ heap[o].listener = "open"
    /\ Len(conns) < MaxConns
    /\ heap' = [heap EXCEPT ![o] = SetLogs(heap[o], "New connection")]
    /\ conns' = Append(conns, NewConn(o))
    /\ UNCHANGED <<tokenSource, tunnels, call, ret, runPc, acceptPc, stops,
                   shutPc, shutPending, shutTargets, shutBranch, logN, held,
                   acceptErrs, pollVars, genVars, clearVars, moreVars>>

\* handleConnection returning on the dial error without its deferred Close.
DialFailedLeavesOpen(conn) == [conn EXCEPT !.pc = "done"]

\* The task after iap.Dial failed: it has returned, and the deferred
\* localConn.Close() has run.
DialFailed(conn) == [conn EXCEPT !.pc = "done", !.localConn = "closed"]

\* iap.Dial fails: addLog("Failed to dial IAP ..."), return.
DialFail(k) ==
    /\ conns[k].pc = "dial"
    /\ heap' = [heap EXCEPT ![conns[k].tunnel] =
                  SetLogs(heap[conns[k].tunnel], "Failed to dial IAP")]
    /\ conns' = [conns EXCEPT ![k] = DialFailed(conns[k])]
    /\ UNCHANGED <<tokenSource, tunnels, call, ret, runPc, acceptPc, stops,
                   shutPc, shutPending, shutTargets, shutBranch, logN, held,
                   acceptErrs, pollVars, genVars, clearVars, moreVars>>

\* iap.Dial succeeds: addLog("IAP connection established"), wg.Add(2), and the two
\* copy goroutines are started.
DialOk(k) ==
    /\ conns[k].pc = "dial"
    /\ heap' = [heap EXCEPT ![conns[k].tunnel] =
                  SetLogs(heap[conns[k].tunnel], "IAP connection established")]
    /\ conns' = [conns EXCEPT ![k] = [conns[k] EXCEPT !.pc = "copy",
                                                      !.iapConn = "open",
                                                      !.up = "run", !.down = "run"]]
    /\ UNCHANGED <<tokenSource, tunnels, call, ret, runPc, acceptPc, stops,
                   shutPc, shutPending, shutTargets, shutBranch, logN, held,
                   acceptErrs, pollVars, genVars, clearVars, moreVars>>

\* io.Copy(iapConn, localConn) returns and wg.Done() runs.
CopyUpDone(k) ==
    /\ conns[k].up = "run"
    /\ conns' = [conns EXCEPT ![k].up = "done"]
    /\ UNCHANGED <<tunnelVars, acceptErrs, pollVars, genVars, clearVars, moreVars>>

\* io.Copy(localConn, iapConn) returns and wg.Done() runs.
CopyDownDone(k) ==
    /\ conns[k].down = "run"
    /\ conns' = [conns EXCEPT ![k].down = "done"]
    /\ UNCHANGED <<tunnelVars, acceptErrs, pollVars, genVars, clearVars, moreVars>>

\* A WaitGroup that counts one copy goroutine: wg.Wait() returns when either has
\* finished.
WaitReturnsAfterOne(conn) == conn.up = "done" \/ conn.down = "done"

\* wg.Add(2), one wg.Done() per copy goroutine: wg.Wait() returns when both have
\* finished.
WaitReturns(conn) == conn.up = "done" /\ conn.down = "done"

\* wg.Wait() returns: addLog("Connection closed"), then the deferred
\* iapConn.Close() and localConn.Close().
ConnClosed(k) ==
    /\ conns[k].pc = "copy"
    /\ WaitReturns(conns[k])
    /\ heap' = [heap EXCEPT ![conns[k].tunnel] =
                  SetLogs(heap[conns[k].tunnel], "Connection closed")]
    /\ conns' = [conns EXCEPT ![k] = [conns[k] EXCEPT !.pc = "done",
                                                      !.iapConn = "closed",
                                                      !.localConn = "closed"]]
    /\ UNCHANGED <<tokenSource, tunnels, call, ret, runPc, acceptPc, stops,
                   shutPc, shutPending, shutTargets, shutBranch, logN, held,
                   acceptErrs, pollVars, genVars, clearVars, moreVars>>

\* One session as StartTunnelWithRemotePort registers it, its goroutines, the
\* connections it takes, and StopTunnel.
ConnNext ==
    \/ \E o \in Objs : RunListen(o)
    \/ \E o \in Objs : RunSetRunning(o)
    \/ \E o \in Objs : RunStopped(o)
    \/ \E o \in Objs : AcceptFails(o)
    \/ \E o \in Objs : AcceptSelect(o)
    \/ \E o \in Objs : AcceptConn(o)
    \/ \E k \in DOMAIN conns : DialFail(k)
    \/ \E k \in DOMAIN conns : DialOk(k)
    \/ \E k \in DOMAIN conns : CopyUpDone(k)
    \/ \E k \in DOMAIN conns : CopyDownDone(k)
    \/ \E k \in DOMAIN conns : ConnClosed(k)
    \/ \E id \in IDs : StopTunnel(id) /\ UNCHANGED ret

ConnSpec == LogInit /\ [][ConnNext]_vars

\* ---------------------------------------------------- GenerateWindowsPassword
\* The Username fields a request can carry: none, or a name.
Usernames == {"", "bob"}

\* json.Marshal(keyMeta): the text of the windowsKeyMetadata of a call, with the
\* UserName and the Modulus it publishes.
KeyMetaJSON(username, modulus) == [UserName |-> username, Modulus |-> modulus]

\* The Value of a metadata item: the windows-keys text of an earlier call, or a
\* text that publishes no key.
Values == {KeyMetaJSON("bob", MaxModulus), KeyMetaJSON("", 0)}

Keys == {"windows-keys", "ssh-keys", "startup-script"}

MetadataItems == [Key : Keys, Value : Values]

\* What Instances.Get can return as instance.Metadata.Items; a nil Metadata is
\* replaced by one without items.
InstanceMetadata == UNION {[1..n -> MetadataItems] : n \in 0..MaxItems}

\* The metadata update that sends the windows-keys item alone.
UpdateWindowsKeysOnly(items, value) ==
    <<[Key |-> "windows-keys", Value |-> value]>>

\* Find or create the windows-keys item: the first item with that key gets the
\* new value; without one, an item is appended.
UpdateWindowsKeys(items, value) ==
    IF \E i \in DOMAIN items : items[i].Key = "windows-keys"
    THEN LET i == CHOOSE k \in DOMAIN items :
                     /\ items[k].Key = "windows-keys"
                     /\ \A j \in 1..(k - 1) : items[j].Key # "windows-keys"
         IN  [items EXCEPT ![i].Value = value]
    ELSE Append(items, [Key |-> "windows-keys", Value |-> value])

\* A failure that loses its error text.
FailureSilent(error) == WindowsPasswordResult(FALSE, "", 0, "", FALSE, FALSE)

\* WindowsPasswordResult{Success: false, Error: error}
Failure(error) == WindowsPasswordResult(FALSE, "", 0, error, FALSE, FALSE)

\* The serial outputs a poll can read.
SerialOutputs == UNION {[1..n -> Entries] : n \in 0..MaxEntries}

\* What pollForWindowsPassword can return: what its loop over the matches of
\* some output returns, or the timeout.
PollOutcomes ==
    ({Scan(out, 1) : out \in SerialOutputs} \ {NoPollResult})
    \cup {PollResult("timeout", 0, "")}

\* The call looks the connection up in a.config.Favorites and defaults the
\* username; without the connection it returns.
GenBegin(found, name, save, update) ==
    /\ genPc = "idle"
    /\ genReq' = [found |-> found, Username |-> name, SaveToKeychain |-> save,
                  UpdateBookmark |-> update,
                  username |-> IF name = "" THEN "Administrator" ELSE name]
    /\ IF found
       THEN genPc' = "GenerateKey" /\ UNCHANGED result
       ELSE genPc' = "returned" /\ result' = Failure("Connection not found")
    /\ UNCHANGED <<instance, metadata, tunnelVars, pollVars, clearVars, connVars, moreVars>>

\* A call of the library or of the Compute API that fails makes the call return
\* the failure with the text of that step.
GenFail(pc, error) ==
    /\ genPc = pc
    /\ genPc' = "returned"
    /\ result' = Failure(error)
    /\ UNCHANGED <<genReq, instance, metadata, tunnelVars, pollVars, clearVars, connVars, moreVars>>

GenStep(pc, next) ==
    /\ genPc = pc
    /\ genPc' = next
    /\ UNCHANGED <<genReq, instance, metadata, result, tunnelVars, pollVars, clearVars, connVars, moreVars>>

\* rsa.GenerateKey(rand.Reader, 2048)
GenGenerateKey ==
    \/ GenFail("GenerateKey", "Failed to generate RSA key")
    \/ GenStep("GenerateKey", "NewService")

\* compute.NewService
GenNewService ==
    \/ GenFail("NewService", "Failed to create compute service")
    \/ GenStep("NewService", "Get")

\* computeService.Instances.Get: a failure, told apart by its text, or the
\* instance with its metadata.
GenGet ==
    \/ GenFail("Get", "Permission denied")
    \/ GenFail("Get", "Failed to get instance")
    \/ /\ genPc = "Get"
       /\ genPc' = "Marshal"
       /\ instance' \in InstanceMetadata
       /\ UNCHANGED <<genReq, metadata, result, tunnelVars, pollVars, clearVars, connVars, moreVars>>

\* json.Marshal(keyMeta), then the windows-keys item found or created in the
\* metadata of the instance.
GenUpdateMetadata ==
    \/ GenFail("Marshal", "Failed to marshal key metadata")
    \/ /\ genPc = "Marshal"
       /\ genPc' = "SetMetadata"
       /\ metadata' = UpdateWindowsKeys(instance,
                                        KeyMetaJSON(genReq.username, expectedModulus))
       /\ UNCHANGED <<genReq, instance, result, tunnelVars, pollVars, clearVars, connVars, moreVars>>

\* computeService.Instances.SetMetadata(..., metadata)
GenSetMetadata ==
    \/ GenFail("SetMetadata", "Permission denied")
    \/ GenFail("SetMetadata", "Failed to set metadata")
    \/ GenStep("SetMetadata", "poll")

\* a.pollForWindowsPassword returns.  On an error the failure carries its text.
\* Otherwise the result carries the username and the password; KeychainSaved is
\* set when the request asks for the Keychain and saveToKeychain succeeds,
\* BookmarkUpdated when it asks for the bookmark, Windows App is installed, the
\* connection has a port and the bookmark is written.
GenPoll ==
    /\ genPc = "poll"
    /\ genPc' = "returned"
    /\ \E r \in PollOutcomes :
          IF r.err # "nil"
          THEN result' = Failure(r.err)
          ELSE \E saved \in {FALSE, genReq.SaveToKeychain},
                  updated \in {FALSE, genReq.UpdateBookmark} :
                  result' = WindowsPasswordResult(TRUE, genReq.username, r.password,
                                                  "", saved, updated)
    /\ UNCHANGED <<genReq, instance, metadata, tunnelVars, pollVars, clearVars, connVars, moreVars>>

GenInit ==
    /\ tokenSource = "set"
    /\ heap = <<>>
    /\ tunnels = <<>>
    /\ call = [c \in Calls |-> IdleCall]
    /\ ret = NoResult
    /\ runPc = <<>>
    /\ acceptPc = <<>>
    /\ stops = <<>>
    /\ shutPc = "idle"
    /\ shutPending = {}
    /\ shutTargets = {}
    /\ shutBranch = "none"
    /\ logN = 0
    /\ held = <<>>
    /\ PollIdle
    /\ RestIdle

GenNext ==
    \/ \E found \in BOOLEAN, name \in Usernames, save \in BOOLEAN, update \in BOOLEAN :
          GenBegin(found, name, save, update)
    \/ GenGenerateKey
    \/ GenNewService
    \/ GenGet
    \/ GenUpdateMetadata
    \/ GenSetMetadata
    \/ GenPoll

GenSpec == GenInit /\ [][GenNext]_vars

\* ------------------------------------------------- GetFreePort, step by step
\* A GetFreePort call followed statement by statement while the sessions change
\* between its statements.  freePort.attempts is the loop counter, freePort.port
\* the port of the listener the iteration opened and closed again.
GetFreePortReturn(err, port) ==
    freePort' = [freePort EXCEPT !.pc = "returned", !.err = err, !.port = port]

GetFreePortBegin ==
    /\ freePort.pc = "idle"
    /\ freePort' = [freePort EXCEPT !.pc = "listen"]
    /\ UNCHANGED <<tunnelVars, pollVars, genVars, clearVars, connVars, favVars, lockVars>>

\* The loop condition, then net.Listen("tcp", "127.0.0.1:0"): an error is
\* returned as it is; otherwise the OS hands out a port no listener holds and
\* the listener is closed at once.
GetFreePortListen ==
    /\ freePort.pc = "listen"
    /\ IF freePort.attempts >= MaxAttempts
       THEN GetFreePortReturn("failed to find free port after multiple attempts", 0)
       ELSE \/ GetFreePortReturn("listen failed", 0)
            \/ \E p \in Ports :
                  /\ ~PortBound(p)
                  /\ freePort' = [freePort EXCEPT !.pc = "check", !.port = p]
    /\ UNCHANGED <<tunnelVars, pollVars, genVars, clearVars, connVars, favVars, lockVars>>

\* if !a.isPortInUse(port) { return port, nil }, else attempts++.
GetFreePortCheck ==
    /\ freePort.pc = "check"
    /\ IF ~isPortInUse(freePort.port)
       THEN GetFreePortReturn("nil", freePort.port)
       ELSE freePort' = [freePort EXCEPT !.pc = "listen",
                                         !.attempts = freePort.attempts + 1]
    /\ UNCHANGED <<tunnelVars, pollVars, genVars, clearVars, connVars, favVars, lockVars>>

FreePortNext ==
    \/ \E c \in Calls, localPort \in Ports : StartCall(c, localPort)
    \/ \E c \in Calls : CheckPort(c)
    \/ \E c \in Calls : SuggestPort(c)
    \/ \E c \in Calls : ProbePort(c)
    \/ \E c \in Calls : Register(c)
    \/ \E o \in Objs : RunListen(o)
    \/ \E o \in Objs : RunSetRunning(o)
    \/ \E o \in Objs : RunStopped(o)
    \/ \E o \in Objs : AcceptExit(o)
    \/ \E id \in IDs : StopTunnel(id) /\ UNCHANGED ret
    \/ GetFreePortBegin
    \/ GetFreePortListen
    \/ GetFreePortCheck

FreePortSpec == Init /\ [][FreePortNext]_vars

\* ------------------------------------------------ the locks of the tunnel manager
\* The operations of the tunnel manager reduced to the lock calls they make, in
\* the order they make them: a.tunnelsMu (a sync.RWMutex) and the logsMu (a
\* sync.Mutex) of a session.  Each goroutine runs one operation on a session.
\* A Lock() of the RWMutex first announces itself, which keeps new readers out,
\* and then waits for the readers to leave.
Ins(i, t) == [i |-> i, t |-> t]

\* Tunnel.addLog and Tunnel.toInfo: t.logsMu.Lock(); defer t.logsMu.Unlock().
LocksOfAddLog(t) == <<Ins("logsMu.Lock", t), Ins("logsMu.Unlock", t)>>
LocksOfToInfo(t) == <<Ins("logsMu.Lock", t), Ins("logsMu.Unlock", t)>>

\* isPortInUse: a.tunnelsMu.RLock(); defer a.tunnelsMu.RUnlock().
LocksOfIsPortInUse == <<Ins("RLock", 0), Ins("RUnlock", 0)>>

\* StartTunnelWithRemotePort: the port check, the registration under the write
\* lock, and the snapshot it returns.
LocksOfStartTunnel(t) ==
    LocksOfIsPortInUse \o <<Ins("Lock", 0), Ins("Unlock", 0)>> \o LocksOfToInfo(t)

\* GetTunnel: the read lock around toInfo.
LocksOfGetTunnel(t) == <<Ins("RLock", 0)>> \o LocksOfToInfo(t) \o <<Ins("RUnlock", 0)>>

\* The sessions in an order of the map iteration that begins with t.
RECURSIVE RangeFrom(_, _)
RangeFrom(t, n) ==
    IF n = 0 THEN <<>>
    ELSE <<t>> \o RangeFrom((t % MaxCalls) + 1, n - 1)

RECURSIVE LocksOfEach(_)
LocksOfEach(order) ==
    IF order = <<>> THEN <<>>
    ELSE LocksOfToInfo(Head(order)) \o LocksOfEach(Tail(order))

\* GetTunnels: the read lock around the toInfo of every session.
LocksOfGetTunnels(t) ==
    <<Ins("RLock", 0)>> \o LocksOfEach(RangeFrom(t, MaxCalls)) \o <<Ins("RUnlock", 0)>>

\* The bookmark update that takes the log lock before the registry lock.
BookmarkUpdateLogFirst(t) ==
    <<Ins("logsMu.Lock", t), Ins("Lock", 0), Ins("Unlock", 0), Ins("logsMu.Unlock", t)>>

\* StartTunnelWithBookmark after the bookmark is made: a.tunnelsMu.Lock(),
\* tunnel.addLog(...), a.tunnelsMu.Unlock().
BookmarkUpdate(t) == <<Ins("Lock", 0)>> \o LocksOfAddLog(t) \o <<Ins("Unlock", 0)>>

\* The lock calls of an operation on the session t.  runTunnel logs its start,
\* the outcome of net.Listen and its stop; handleConnection logs the dial and the
\* close; shutdown takes the write lock to start the stop goroutines, which take
\* no lock, and again in its timeout branch.
LocksOf(op, t) ==
    CASE op = "StartTunnelWithRemotePort" -> LocksOfStartTunnel(t)
      [] op = "runTunnel" -> LocksOfAddLog(t) \o LocksOfAddLog(t) \o LocksOfAddLog(t)
      [] op = "handleConnection" -> LocksOfAddLog(t) \o LocksOfAddLog(t)
      [] op = "StopTunnel" -> <<Ins("Lock", 0), Ins("Unlock", 0)>>
      [] op = "RemoveTunnel" -> <<Ins("Lock", 0), Ins("Unlock", 0)>>
      [] op = "GetTunnels" -> LocksOfGetTunnels(t)
      [] op = "StartTunnelWithBookmark" ->
            LocksOfStartTunnel(t) \o BookmarkUpdate(t) \o LocksOfGetTunnel(t)
      [] op = "shutdown" ->
            <<Ins("Lock", 0), Ins("Unlock", 0), Ins("Lock", 0), Ins("Unlock", 0)>>
      [] OTHER -> <<>>

Operations == {"StartTunnelWithRemotePort", "runTunnel", "handleConnection",
               "StopTunnel", "RemoveTunnel", "GetTunnels",
               "StartTunnelWithBookmark", "shutdown"}

\* The goroutine has made every lock call of its operation: it has returned.
ThreadReturned(th) ==
    /\ threads[th].op # "none"
    /\ threads[th].pc > Len(LocksOf(threads[th].op, threads[th].tunnel))

\* The lock call the goroutine is at.
NextIns(th) ==
    IF threads[th].op = "none" \/ ThreadReturned(th)
    THEN Ins("none", 0)
    ELSE LocksOf(threads[th].op, threads[th].tunnel)[threads[th].pc]

Advance(th) == threads' = [threads EXCEPT ![th].pc = @ + 1]

ThreadBegin(th, op, t) ==
    /\ threads[th] = IdleThread
    /\ threads' = [threads EXCEPT ![th] = [op |-> op, pc |-> 1, tunnel |-> t]]
    /\ UNCHANGED <<tunnelsMu, logsMu, tunnelVars, pollVars, genVars, clearVars,
                   connVars, freePortVars, favVars>>

\* a.tunnelsMu.Lock(), its first half: the writer is pending.
TunnelsMuLockPending(th) ==
    /\ NextIns(th).i = "Lock"
    /\ th \notin tunnelsMu.waiting
    /\ tunnelsMu' = [tunnelsMu EXCEPT !.waiting = @ \cup {th}]
    /\ UNCHANGED <<threads, logsMu, tunnelVars, pollVars, genVars, clearVars,
                   connVars, freePortVars, favVars>>

\* a.tunnelsMu.Lock() returns: no writer and no reader holds the lock.
TunnelsMuLock(th) ==
    /\ NextIns(th).i = "Lock"
    /\ th \in tunnelsMu.waiting
    /\ tunnelsMu.writer = 0
    /\ tunnelsMu.readers = {}
    /\ tunnelsMu' = [tunnelsMu EXCEPT !.writer = th, !.waiting = @ \ {th}]
    /\ Advance(th)
    /\ UNCHANGED <<logsMu, tunnelVars, pollVars, genVars, clearVars,
                   connVars, freePortVars, favVars>>

TunnelsMuUnlock(th) ==
    /\ NextIns(th).i = "Unlock"
    /\ tunnelsMu' = [tunnelsMu EXCEPT !.writer = 0]
    /\ Advance(th)
    /\ UNCHANGED <<logsMu, tunnelVars, pollVars, genVars, clearVars,
                   connVars, freePortVars, favVars>>

\* a.tunnelsMu.RLock() returns: no writer holds the lock and none is pending.
TunnelsMuRLock(th) ==
    /\ NextIns(th).i = "RLock"
    /\ tunnelsMu.writer = 0
    /\ tunnelsMu.waiting = {}
    /\ tunnelsMu' = [tunnelsMu EXCEPT !.readers = @ \cup {th}]
    /\ Advance(th)
    /\ UNCHANGED <<logsMu, tunnelVars, pollVars, genVars, clearVars,
                   connVars, freePortVars, favVars>>

TunnelsMuRUnlock(th) ==
    /\ NextIns(th).i = "RUnlock"
    /\ tunnelsMu' = [tunnelsMu EXCEPT !.readers = @ \ {th}]
    /\ Advance(th)
    /\ UNCHANGED <<logsMu, tunnelVars, pollVars, genVars, clearVars,
                   connVars, freePortVars, favVars>>

\* t.logsMu.Lock() returns: no goroutine holds the lock.
LogsMuLock(th) ==
    /\ NextIns(th).i = "logsMu.Lock"
    /\ logsMu[NextIns(th).t] = 0
    /\ logsMu' = [logsMu EXCEPT ![NextIns(th).t] = th]
    /\ Advance(th)
    /\ UNCHANGED <<tunnelsMu, tunnelVars, pollVars, genVars, clearVars,
                   connVars, freePortVars, favVars>>

LogsMuUnlock(th) ==
    /\ NextIns(th).i = "logsMu.Unlock"
    /\ logsMu' = [logsMu EXCEPT ![NextIns(th).t] = 0]
    /\ Advance(th)
    /\ UNCHANGED <<tunnelsMu, tunnelVars, pollVars, genVars, clearVars,
                   connVars, freePortVars, favVars>>

\* A step of the goroutine th inside its operation.
ThreadStep(th) ==
    \/ TunnelsMuLockPending(th)
    \/ TunnelsMuLock(th)
    \/ TunnelsMuUnlock(th)
    \/ TunnelsMuRLock(th)
    \/ TunnelsMuRUnlock(th)
    \/ LogsMuLock(th)
    \/ LogsMuUnlock(th)

LockNext ==
    \/ \E th \in Threads, op \in Operations, t \in Calls : ThreadBegin(th, op, t)
    \/ \E th \in Threads : TunnelsMuLockPending(th)
    \/ \E th \in Threads : TunnelsMuLock(th)
    \/ \E th \in Threads : TunnelsMuUnlock(th)
    \/ \E th \in Threads : TunnelsMuRLock(th)
    \/ \E th \in Threads : TunnelsMuRUnlock(th)
    \/ \E th \in Threads : LogsMuLock(th)
    \/ \E th \in Threads : LogsMuUnlock(th)

LockSpec == Init /\ [][LockNext]_vars

\* The Go scheduler runs every goroutine that can run: a goroutine whose lock
\* call can return gets its lock.  Each goroutine runs one operation, so a lock
\* that is free stays free until one of the goroutines waiting for it takes it.
LockFairSpec == LockSpec /\ \A th \in Threads : WF_vars(ThreadStep(th))

\* ----------------------------------------------------------------- AddFavorite
\* AddFavorite calls followed statement by statement.  No tunnel is registered
\* while they run, so GetFreePort returns any port the OS hands out, or the error
\* of net.Listen.  A Favorite: the VM it is for (ProjectID, InstanceName, Zone,
\* and the ID made of them), its LocalPort, and the call that built the value
\* (its DisplayName and CreatedAt).
Favorite(vm, localPort, c) == [vm |-> vm, LocalPort |-> localPort, call |-> c]

AddReturn(c, err) ==
    adds' = [adds EXCEPT ![c].pc = "returned", ![c].err = err]

\* localPort, err := a.GetFreePort(), before the lock.
AddBegin(c, vm) ==
    /\ adds[c].pc = "idle"
    /\ \E r \in GetFreePort :
          IF r.err = "nil"
          THEN adds' = [adds EXCEPT ![c].pc = "lock", ![c].vm = vm,
                                    ![c].localPort = r.port]
          ELSE adds' = [adds EXCEPT ![c].pc = "returned", ![c].vm = vm,
                                    ![c].err = "failed to allocate local port"]
    /\ UNCHANGED <<favorites, configMu, disk, tunnelVars, pollVars, genVars,
                   clearVars, connVars, freePortVars, lockVars>>

\* a.configMu.Lock(), the check that the VM has no favorite yet, and the entry
\* into the loop over a.config.Favorites, whose range expression is evaluated
\* once.  A return releases the lock (defer a.configMu.Unlock()).
AddLock(c) ==
    /\ adds[c].pc = "lock"
    /\ configMu = 0
    /\ IF \E i \in DOMAIN favorites : favorites[i].vm = adds[c].vm
       THEN /\ AddReturn(c, "connection already exists for this VM")
            /\ UNCHANGED configMu
       ELSE /\ adds' = [adds EXCEPT ![c].pc = "range", ![c].at = 1,
                                    ![c].ranged = favorites]
            /\ configMu' = c
    /\ UNCHANGED <<favorites, disk, tunnelVars, pollVars, genVars,
                   clearVars, connVars, freePortVars, lockVars>>

\* The rollback that removes the favorite the call appended.
RollbackOwn(favs, c) ==
    LET Others(f) == f.call # c IN SelectSeq(favs, Others)

\* a.config.Favorites = a.config.Favorites[:len(a.config.Favorites)-1]
Rollback(favs, c) ==
    IF favs = <<>> THEN favs ELSE SubSeq(favs, 1, Len(favs) - 1)

\* An iteration of the loop over the favorites, under the lock.  The element is
\* read from the array the range expression pointed to, which a.config.Favorites
\* may still share: it is the element at the time the loop began or the one an
\* append has put there since.  On a port conflict the lock is released for
\* another GetFreePort.  After the last element the favorite is built and
\* appended, and the lock released for saveConfig.
AddRange(c) ==
    /\ adds[c].pc = "range"
    /\ configMu = c
    /\ IF adds[c].at > Len(adds[c].ranged)
       THEN /\ favorites' = Append(favorites,
                                   Favorite(adds[c].vm, adds[c].localPort, c))
            /\ adds' = [adds EXCEPT ![c].pc = "save"]
            /\ configMu' = 0
       ELSE /\ \E f \in {adds[c].ranged[adds[c].at]}
                        \cup (IF adds[c].at <= Len(favorites)
                              THEN {favorites[adds[c].at]} ELSE {}) :
                  IF f.LocalPort = adds[c].localPort
                  THEN /\ adds' = [adds EXCEPT ![c].pc = "realloc"]
                       /\ configMu' = 0
                  ELSE /\ adds' = [adds EXCEPT ![c].at = @ + 1]
                       /\ UNCHANGED configMu
            /\ UNCHANGED favorites
    /\ UNCHANGED <<disk, tunnelVars, pollVars, genVars,
                   clearVars, connVars, freePortVars, lockVars>>

\* localPort, err = a.GetFreePort(), with the lock released.
AddRealloc(c) ==
    /\ adds[c].pc = "realloc"
    /\ \E r \in GetFreePort :
          adds' = [adds EXCEPT ![c].pc = "relock", ![c].localPort = r.port,
                               ![c].err = IF r.err = "nil" THEN "nil" ELSE "listen failed"]
    /\ UNCHANGED <<favorites, configMu, disk, tunnelVars, pollVars, genVars,
                   clearVars, connVars, freePortVars, lockVars>>

\* a.configMu.Lock() again; on the error the call returns, otherwise the loop
\* goes on with the next element.
AddRelock(c) ==
    /\ adds[c].pc = "relock"
    /\ configMu = 0
    /\ IF adds[c].err # "nil"
       THEN /\ AddReturn(c, "failed to allocate local port")
            /\ UNCHANGED configMu
       ELSE /\ adds' = [adds EXCEPT ![c].pc = "range", ![c].at = @ + 1,
                                    ![c].err = "none"]
            /\ configMu' = c
    /\ UNCHANGED <<favorites, disk, tunnelVars, pollVars, genVars,
                   clearVars, connVars, freePortVars, lockVars>>

\* err = a.saveConfig(), with the lock released: it writes the favorites as
\* they are when it marshals them, or fails (no path, MkdirAll, WriteFile).
AddSave(c) ==
    /\ adds[c].pc = "save"
    /\ \/ /\ disk' = favorites
          /\ adds' = [adds EXCEPT ![c].pc = "saved", ![c].err = "nil"]
       \/ /\ UNCHANGED disk
          /\ adds' = [adds EXCEPT ![c].pc = "saved", ![c].err = "save failed"]
    /\ UNCHANGED <<favorites, configMu, tunnelVars, pollVars, genVars,
                   clearVars, connVars, freePortVars, lockVars>>

\* a.configMu.Lock() after saveConfig: on its error the rollback and the return
\* of the failure, otherwise the return of the favorite.
AddFinish(c) ==
    /\ adds[c].pc = "saved"
    /\ configMu = 0
    /\ IF adds[c].err # "nil"
       THEN /\ favorites' = Rollback(favorites, c)
            /\ AddReturn(c, "failed to save connection")
       ELSE /\ AddReturn(c, "nil")
            /\ UNCHANGED favorites
    /\ UNCHANGED <<configMu, disk, tunnelVars, pollVars, genVars,
                   clearVars, connVars, freePortVars, lockVars>>

\* AddFavorite calls running at the same time.
FavNext ==
    \/ \E c \in Adders, vm \in VMs : AddBegin(c, vm)
    \/ \E c \in Adders : AddLock(c)
    \/ \E c \in Adders : AddRange(c)
    \/ \E c \in Adders : AddRealloc(c)
    \/ \E c \in Adders : AddRelock(c)
    \/ \E c \in Adders : AddSave(c)
    \/ \E c \in Adders : AddFinish(c)

FavSpec == Init /\ [][FavNext]_vars

\* No other AddFavorite call is between its first and its last statement.
Alone(c) == \A d \in Adders \ {c} : adds[d].pc \in {"idle", "returned"}

\* AddFavorite calls made one after the other.
FavSeqNext ==
    \/ \E c \in Adders, vm \in VMs : Alone(c) /\ AddBegin(c, vm)
    \/ \E c \in Adders : Alone(c) /\ AddLock(c)
    \/ \E c \in Adders : Alone(c) /\ AddRange(c)
    \/ \E c \in Adders : Alone(c) /\ AddRealloc(c)
    \/ \E c \in Adders : Alone(c) /\ AddRelock(c)
    \/ \E c \in Adders : Alone(c) /\ AddSave(c)
    \/ \E c \in Adders : Alone(c) /\ AddFinish(c)

FavSeqSpec == Init /\ [][FavSeqNext]_vars

\* =================================================================== claims
Range(f) == {f[i] : i \in DOMAIN f}

\* C1: no two sessions of the registry whose status is "starting" or "running"
\* have the same LocalPort, at any instant and under any interleaving of
\* StartTunnelWithRemotePort, StopTunnel and the runTunnel goroutines.
C1_LivePortsUnique ==
    \A id1 \in DOMAIN tunnels, id2 \in DOMAIN tunnels :
        (/\ id1 # id2
         /\ Live(heap[tunnels[id1]].Status)
         /\ Live(heap[tunnels[id2]].Status))
        => heap[tunnels[id1]].LocalPort # heap[tunnels[id2]].LocalPort

\* C2: once a session's status is "stopped" or "error", no step changes its
\* status again.
C2_TerminalStatusKept ==
    [][\A o \in DOMAIN heap :
          heap[o].Status \in {"stopped", "error"}
          => heap'[o].Status = heap[o].Status]_vars

\* C3: the status of a session follows starting -> (running or error) -> stopped;
\* stated through the moves the claim excludes by name: the status never
\* returns to "starting" and never goes from "stopped" to "running" or "error".
C3_NoMoveBackwards ==
    [][\A o \in DOMAIN heap :
          /\ heap[o].Status # "starting" => heap'[o].Status # "starting"
          /\ heap[o].Status = "stopped" => heap'[o].Status \notin {"running", "error"}]_vars

C5_LogKeepsLast100 ==
    LET logs == heap[1].Logs
        kept == IF logN > LogCap THEN LogCap ELSE logN
    IN  /\ Len(logs) = kept
        /\ Len(logs) <= LogCap
        /\ \A i \in 1..Len(logs) : logs[i] = logN - kept + i

\* C5's case: more than 100 messages were appended and 100 are held.
C5_Witness == logN > LogCap /\ Len(heap[1].Logs) = LogCap /\ heap[1].Logs[1] = logN - 99

\* C6: once shutdown has returned, no session has a bound listener; stated for
\* the sessions that were "starting" or "running" when shutdown began.
C6_NoListenerAfterShutdown ==
    shutPc = "returned" => \A o \in shutTargets : heap[o].listener # "open"

\* C7: shutdown returns: once it waits in its select it gets to its end, whatever
\* the stop goroutines, the accept loops and the connections do.
C7_ShutdownReturns == (shutPc = "waiting") ~> (shutPc = "returned")

\* C7's case: shutdown has returned while a stop goroutine it started has not run.
C7_Witness == shutPc = "returned" /\ shutPending # {}

\* C8: when shutdown returns through its done branch, runTunnel and the accept
\* loop of every session it stopped have finished.
C8_GracefulWaitsForLoops ==
    (shutPc = "returned" /\ shutBranch = "graceful")
    => \A o \in shutTargets : runPc[o] = "done" /\ acceptPc[o] # "run"

\* C9 as claimed: whenever the bind of the local listener fails for a call, no
\* session of that call is in the registry, in no state: no registered session
\* has a failed bind behind it.
C9_NoSessionAfterBindFailure ==
    \A id \in DOMAIN tunnels :
        "Failed to create listener" \notin Range(heap[tunnels[id]].Logs)

\* C9 as amended: when the test listener of StartTunnelWithRemotePort fails, the
\* call returns "port not available" in that step and changes neither the
\* registry nor any tunnel; only a call that got past the test listener inserts
\* into the registry; a failed bind in runTunnel leaves its session registered
\* as it was, with status "error".
C9_ProbeFailureLeavesRegistry ==
    [][/\ \A c \in Calls :
            (call[c].pc = "probe" /\ call'[c].pc = "returned")
            => /\ ret' = Result("port not available", call[c].port, 0, 0)
               /\ tunnels' = tunnels
               /\ heap' = heap
       /\ \A id \in DOMAIN tunnels' \ DOMAIN tunnels :
            \E c \in Calls : call[c].pc = "register" /\ call[c].tunnelID = id
       /\ \A o \in DOMAIN heap :
            (runPc[o] = "start" /\ runPc'[o] = "done")
            => heap'[o].Status = "error" /\ tunnels' = tunnels]_vars

\* C9's case: a call has returned "port not available" with a session registered.
C9_Witness == ret.err = "port not available" /\ DOMAIN tunnels # {}

C11_StartAddsNewEntry ==
    [][\A c \in Calls :
          (call[c].pc = "register" /\ call'[c].pc = "returned")
          => /\ call[c].tunnelID \notin DOMAIN tunnels
             /\ DOMAIN tunnels' = DOMAIN tunnels \cup {call[c].tunnelID}
             /\ \A id \in DOMAIN tunnels : tunnels'[id] = tunnels[id]]_vars

\* C12: RemoveTunnel on a session that is "starting" or "running" returns an
\* error and leaves the registry as it was; on a session that is "stopped" or
\* "error" it returns nil and deletes that entry and no other.
C12_RemoveOnlyWhenStopped ==
    [][\A id \in DOMAIN tunnels :
          (ret'.op = "RemoveTunnel" /\ ret'.id = id /\ RemoveTunnel(id))
          => IF heap[tunnels[id]].Status \in {"starting", "running"}
             THEN /\ ret'.err # "nil"
                  /\ tunnels' = tunnels
                  /\ heap' = heap
             ELSE /\ heap[tunnels[id]].Status \in {"stopped", "error"}
                  /\ ret'.err = "nil"
                  /\ DOMAIN tunnels' = DOMAIN tunnels \ {id}
                  /\ \A k \in DOMAIN tunnels' : tunnels'[k] = tunnels[k]
                  /\ heap' = heap]_vars

\* C12's case: RemoveTunnel has deleted the entry of its ID and another session
\* is still in the registry.
C12_Witness ==
    /\ ret.op = "RemoveTunnel"
    /\ ret.err = "nil"
    /\ ret.id \notin DOMAIN tunnels
    /\ DOMAIN tunnels # {}

\* C13: StopTunnel, RemoveTunnel and GetTunnel with an ID that is not in the
\* registry return "tunnel not found" and change neither the registry nor any
\* session (status, listener, cancellation) nor any goroutine.
C13_UnknownIdNotFound ==
    [][\A id \in IDs \ DOMAIN tunnels :
          /\ (ret'.op = "StopTunnel" /\ ret'.id = id /\ StopTunnel(id))
             => ret'.err = "tunnel not found" /\ heap' = heap /\ tunnels' = tunnels
          /\ (ret'.op = "RemoveTunnel" /\ ret'.id = id /\ RemoveTunnel(id))
             => ret'.err = "tunnel not found" /\ heap' = heap /\ tunnels' = tunnels
          /\ (ret'.op = "GetTunnel" /\ ret'.id = id /\ GetTunnel(id))
             => ret'.err = "tunnel not found" /\ heap' = heap /\ tunnels' = tunnels]_vars

\* C13's case: a call with an unknown ID has returned "tunnel not found" while a
\* session is in the registry.
C13_Witness ==
    /\ ret.err = "tunnel not found"
    /\ ret.op \in {"StopTunnel", "RemoveTunnel", "GetTunnel"}
    /\ \E id \in DOMAIN tunnels : Live(heap[tunnels[id]].Status)

\* C14: in the slice GetTunnels returned, of two sessions of the registry with
\* different creation instants (Tunnel.StartedAt) the one created later stands
\* before the one created earlier.
C14_NewestFirst ==
    \A i \in DOMAIN held, j \in DOMAIN held :
        (/\ Len(held) = Cardinality(DOMAIN tunnels)
         /\ heap[tunnels[held[i].ID]].StartedAt > heap[tunnels[held[j].ID]].StartedAt)
        => i < j

\* What the holder of a TunnelInfo reads in it.
InfoView(info) == [info EXCEPT !.Logs = InfoLogs(info)]

\* C15: a TunnelInfo a caller received is a snapshot: whatever happens next to
\* the session (log appends, status changes, stop, removal), the caller reads
\* the same fields and the same log in it, until a call hands it new values.
C15_InfoIsSnapshot ==
    [][\/ /\ DOMAIN held' = DOMAIN held
          /\ \A i \in DOMAIN held : InfoView(held[i])' = InfoView(held[i])
       \/ \E c \in Calls : call[c].pc = "register" /\ call'[c].pc = "returned"
       \/ \E id \in IDs : GetTunnel(id)
       \/ GetTunnels]_vars

\* C15's case: the caller holds the TunnelInfo of a session taken while it was
\* "running"; the session has since been stopped, has logged more and has been
\* removed from the registry.
C15_Witness ==
    \E i \in DOMAIN held, o \in Objs :
        /\ held[i].Status = "running"
        /\ held[i].ID \notin DOMAIN tunnels
        /\ heap[o].ID = held[i].ID
        /\ heap[o].Status = "stopped"
        /\ Len(heap[o].Logs) > Len(held[i].Logs)

\* C16: StopTunnel(id) cancels the session registered under id and leaves every
\* other session as it was: its status, listener, cancellation signal and log,
\* its runTunnel goroutine and its accept loop.
C16_StopTouchesOneSession ==
    [][\A id \in DOMAIN tunnels :
          StopTunnel(id)
          => /\ heap'[tunnels[id]].cancelled
             /\ \A o \in Objs \ {tunnels[id]} :
                   /\ heap'[o] = heap[o]
                   /\ runPc'[o] = runPc[o]
                   /\ acceptPc'[o] = acceptPc[o]]_vars

\* C16's case: a session has been stopped by StopTunnel while a session created
\* before it is still running, not cancelled, with its listener and accept loop.
C16_Witness ==
    \E o1 \in Objs, o2 \in Objs :
        /\ o2 < o1
        /\ stops[o1] >= 1
        /\ heap[o1].cancelled
        /\ heap[o2].Status = "running"
        /\ ~heap[o2].cancelled
        /\ heap[o2].listener = "open"
        /\ acceptPc[o2] = "run"

BindFailed(o) ==
    runPc[o] = "done" /\ "Failed to create listener" \in Range(heap[o].Logs)

\* C18: a session started with localPort 0 whose port can be bound and which is
\* not stopped becomes "running", with a nonzero LocalPort and a "Listening on"
\* entry in its log; and a "running" session stays "running" as long as it is
\* not cancelled.
C18_BecomesRunning ==
    /\ \A o \in 1..MaxCalls :
          (o \in Objs /\ runPc[o] = "start")
          ~> (/\ o \in Objs
              /\ \/ /\ heap[o].Status = "running"
                    /\ heap[o].LocalPort # 0
                    /\ "Listening on" \in Range(heap[o].Logs)
                 \/ BindFailed(o)
                 \/ heap[o].cancelled)
    /\ [][\A o \in Objs :
            (heap[o].Status = "running" /\ ~heap'[o].cancelled)
            => heap'[o].Status = "running"]_vars

\* C18's case: a session started with localPort 0 is "running" on its port and
\* has not been cancelled.
C18_Witness ==
    \E o \in Objs :
        /\ heap[o].Status = "running"
        /\ ~heap[o].cancelled
        /\ heap[o].LocalPort \in Ports
        /\ "Listening on" \in Range(heap[o].Logs)

\* The serial output holds an entry with the published modulus.
HasExpected == \E i \in DOMAIN serial : serial[i].modulus = expectedModulus

\* C19: when a poll ends the loop, the result comes from an entry with the
\* published modulus: a password is the secret of such an entry's payload, a
\* guest agent error the message of such an entry, a decrypt failure the payload
\* of such an entry; entries with another modulus never end the loop and their
\* secret is never returned.
C19_OnlyOwnModulus ==
    [][/\ pollRet'.password \in {0, expectedModulus}
       /\ (pollPc = "fetch" /\ pollPc' = "returned")
          => \E i \in DOMAIN serial :
                /\ serial[i].modulus = expectedModulus
                /\ pollRet'.err \in {"nil", "guest agent error",
                                     "failed to decrypt password"}
                /\ pollRet'.err = "nil"
                   => /\ serial[i].enc.kind = "payload"
                      /\ serial[i].enc.key = expectedModulus
                      /\ pollRet'.password = serial[i].enc.text
                /\ pollRet'.err = "guest agent error"
                   => serial[i].errorMessage # ""
                /\ pollRet'.err = "failed to decrypt password"
                   => \/ serial[i].enc.kind = "garbage"
                      \/ /\ serial[i].enc.kind = "payload"
                         /\ serial[i].enc.key # expectedModulus]_vars

\* C19's case: the output held the response to another modulus before the one
\* to the published modulus, and the call returned the secret of its own.
C19_Witness ==
    /\ pollPc = "returned"
    /\ pollRet = PollResult("nil", expectedModulus, "")
    /\ Len(serial) >= 2
    /\ serial[1].modulus # expectedModulus
    /\ serial[1].enc.kind = "payload"

\* C20: when the serial output never holds an entry with the published modulus,
\* the call returns, what it returns is the timeout failure, and the timeout
\* failure is never returned before 90 seconds have passed since the loop began.
C20_TimeoutAfterBudget ==
    /\ [](pollRet.err = "timeout" => elapsed >= Timeout)
    /\ []((pollPc = "returned" /\ ~HasExpected) => pollRet.err = "timeout")
    /\ (pollPc \in {"check", "fetch", "sleep"}) ~> (pollPc = "returned" \/ HasExpected)

\* C20's case: the call has returned the timeout failure while the output held
\* responses to other moduli only.
C20_Witness ==
    /\ pollPc = "returned"
    /\ pollRet.err = "timeout"
    /\ ~HasExpected
    /\ \E i \in DOMAIN serial : serial[i].enc.kind = "payload"

\* The call is in its loop.
Polling == pollPc \in {"check", "fetch", "sleep"}

\* C21: pollForWindowsPassword returns whatever the serial port reader does
\* (failing, holding no response to the published modulus, or holding one only
\* late): a call in its loop leads to a call that has returned; what it returns
\* is the password, the guest agent's error, a decrypt failure or the timeout;
\* and no GetSerialPortOutput begins once 90 seconds have passed since the start.
C21_PollTerminates ==
    /\ Polling ~> (pollPc = "returned")
    /\ [](pollPc = "returned"
          => pollRet.err \in {"nil", "guest agent error",
                              "failed to decrypt password", "timeout"})
    /\ [][(pollPc = "check" /\ pollPc' = "fetch") => elapsed < Timeout]_vars

\* C21's case: the call ran past its 90 seconds on an output without any entry
\* and returned the timeout.
C21_Witness ==
    /\ pollPc = "returned"
    /\ pollRet.err = "timeout"
    /\ elapsed > Timeout
    /\ serial = <<>>

\* The i-th entry of the output is a match of jsonPattern that json.Unmarshal
\* takes and that carries the published modulus.
Answers(i) ==
    /\ serial[i].hasKey
    /\ serial[i].parses
    /\ serial[i].modulus = expectedModulus

\* The poll finds the i-th entry: its loop over the matches comes to it, no
\* earlier match of the same output having made the call return.
Finds(i) ==
    /\ Answers(i)
    /\ \A j \in 1..(i - 1) :
          Answers(j) => serial[j].enc.kind = "empty" /\ serial[j].errorMessage = ""

\* C22: when the poll that reads the output finds an entry with the published
\* modulus, an error message and no encrypted payload, the call returns in that
\* poll, what it returns is the guest agent failure whose detail is that entry's
\* message, and a call that has returned polls no more.
C22_ErrorEntryEndsPoll ==
    [][/\ (pollPc = "fetch" /\ pollPc' \in {"sleep", "returned"})
          => \A i \in DOMAIN serial :
                (/\ Finds(i)
                 /\ serial[i].enc.kind = "empty"
                 /\ serial[i].errorMessage # "")
                => /\ pollPc' = "returned"
                   /\ pollRet'.err = "guest agent error"
                   /\ pollRet'.detail = serial[i].errorMessage
                   /\ pollRet'.password = 0
       /\ pollPc = "returned" => pollPc' = "returned"]_vars

\* C22's case: the output held the error response to another request and then
\* the one to the published modulus, and the call returned the message of its own.
C22_Witness ==
    /\ pollPc = "returned"
    /\ pollRet.err = "guest agent error"
    /\ pollRet.detail = "no such user"
    /\ Len(serial) >= 2
    /\ serial[1].modulus # expectedModulus
    /\ serial[1].errorMessage = "agent failed"
    /\ serial[1].hasKey

\* The call has returned its result.
Returned == genPc = "returned"

\* C23 as stated: a returned result has Success with a Password and no Error, or
\* no Success, no Password and an Error.
C23_SuccessHasPassword ==
    Returned
    => \/ result.Success /\ result.Password # 0 /\ result.Error = ""
       \/ ~result.Success /\ result.Password = 0 /\ result.Error # ""

\* C23, amended: a returned result has Success with no Error and, as Password,
\* the text the payload decrypted to (the empty text when the payload encrypts
\* the empty text), or no Success, no Password and an Error; a Password is present
\* only on success and an Error only on failure.
C23_ResultShape ==
    Returned
    => /\ \/ result.Success /\ result.Error = ""
             /\ result.Password \in {0, expectedModulus}
          \/ ~result.Success /\ result.Password = 0 /\ result.Error # ""
       /\ result.Password # 0 => result.Success
       /\ result.Error # "" => ~result.Success

\* C23's case: a call returned success with the password of its key pair.
C23_Witness ==
    /\ Returned
    /\ result.Success
    /\ result.Password = expectedModulus
    /\ result.KeychainSaved

\* The positions of the windows-keys items among the items read.
WindowsKeysAt == {i \in DOMAIN instance : instance[i].Key = "windows-keys"}

\* C24: the items handed to SetMetadata are the items read from the instance
\* with one change: when an item has the key windows-keys, the first such item
\* has the new value and nothing else differs; when none has, one windows-keys
\* item with the new value follows the items read, which are all there, unchanged
\* and in their order.
C24_OnlyWindowsKeysChanges ==
    genPc \in {"SetMetadata", "poll"}
    => LET value == KeyMetaJSON(genReq.username, expectedModulus)
       IN  IF WindowsKeysAt = {}
           THEN /\ Len(metadata) = Len(instance) + 1
                /\ \A i \in DOMAIN instance : metadata[i] = instance[i]
                /\ metadata[Len(metadata)] = [Key |-> "windows-keys", Value |-> value]
           ELSE /\ Len(metadata) = Len(instance)
                /\ \E w \in WindowsKeysAt :
                      /\ \A v \in WindowsKeysAt : w <= v
                      /\ metadata[w] = [Key |-> "windows-keys", Value |-> value]
                      /\ \A i \in DOMAIN instance :
                            i # w => metadata[i] = instance[i]

\* C24's case: the instance had another item before its windows-keys item, the
\* latter with the key of an earlier call, and SetMetadata has been called.
C24_Witness ==
    /\ genPc = "poll"
    /\ Len(instance) = 2
    /\ instance[1].Key = "ssh-keys"
    /\ instance[2] = [Key |-> "windows-keys", Value |-> KeyMetaJSON("bob", MaxModulus)]
    /\ metadata[2].Value = KeyMetaJSON("Administrator", expectedModulus)

\* C25: when ClearStoppedTunnels returns, the registry is the registry of the
\* time of the call without the sessions that were "stopped" or "error" then,
\* every session that was "starting" or "running" then is still registered, and
\* the count returned is the number of the sessions deleted.
C25_ClearsExactlyStopped ==
    [][(clearPc = "loop" /\ clearPc' = "returned")
       => /\ tunnels' = Delete(clearAt.reg, clearAt.dead)
          /\ count' = Cardinality(clearAt.dead)
          /\ count' = Cardinality(DOMAIN clearAt.reg \ DOMAIN tunnels')]_vars

\* C26: a session's status turns "running" only in the runTunnel goroutine that
\* has bound its listener; the step of runTunnel whose bind fails leaves the status
\* "error"; and a session whose bind failed is not "running" after any later step.
C26_RunningOnlyAfterBind ==
    [][\A o \in DOMAIN heap :
          /\ (heap[o].Status # "running" /\ heap'[o].Status = "running")
             => (runPc[o] = "bound" /\ heap[o].listener # "nil")
          /\ (runPc[o] = "start" /\ runPc'[o] = "done")
             => (heap'[o].Status = "error" /\ heap'[o].listener = "nil")
          /\ BindFailed(o) => heap'[o].Status # "running"]_vars

\* C26's case: the bind of a session failed and the session was stopped later.
C26_Witness ==
    \E o \in Objs :
        /\ BindFailed(o)
        /\ heap[o].cancelled
        /\ heap[o].Status = "stopped"
        /\ heap[o].listener = "nil"

\* C27: the status of a session changes, and the registry gains or loses a key,
\* only in a step of the goroutine that holds the exclusive lock a.tunnelsMu: in
\* particular, while ClearStoppedTunnels holds that lock and reads the statuses,
\* no status changes and the registry changes by the deletes of that call only.
C27_WritesUnderLock ==
    [][clearPc = "loop"
       => /\ \A o \in DOMAIN heap : heap'[o].Status = heap[o].Status
          /\ DOMAIN tunnels' \subseteq DOMAIN tunnels
          /\ DOMAIN tunnels \ DOMAIN tunnels' \subseteq clearTodo]_vars

\* C28: once the cancellation signal of a session is raised, its accept loop
\* exits, its listener is closed from some time on, and its status is "stopped"
\* from some time on; except that a session whose status was "error" when the
\* signal was raised keeps the status "error", and no other cancelled session
\* ends as "error".
C28_CancelEndsStopped ==
    /\ [][\A o \in DOMAIN heap :
            /\ (heap[o].Status = "error" /\ heap'[o].cancelled)
               => heap'[o].Status = "error"
            /\ (heap[o].Status # "error" /\ heap[o].cancelled)
               => heap'[o].Status # "error"]_vars
    /\ \A o \in 1..MaxCalls :
          (o \in Objs /\ heap[o].cancelled)
          ~> [](/\ o \in Objs
                /\ acceptPc[o] # "run"
                /\ heap[o].listener # "open"
                /\ heap[o].Status \in {"stopped", "error"})

\* C29: when the accept loop handles an error of Accept and the session is not
\* cancelled, the error is appended to the session's log, the loop goes back to
\* Accept and the session is "running" before and after; when the session is
\* cancelled, nothing is logged and the loop exits.
C29_AcceptErrorHandling ==
    [][\A o \in DOMAIN heap :
          (acceptPc[o] = "failed" /\ acceptPc'[o] # "failed")
          => IF heap[o].cancelled
             THEN /\ acceptPc'[o] = "exited"
                  /\ heap'[o].Logs = heap[o].Logs
             ELSE /\ acceptPc'[o] = "run"
                  /\ heap'[o].Logs = Append(heap[o].Logs, "Accept error")
                  /\ heap[o].Status = "running"
                  /\ heap'[o].Status = "running"]_vars

\* C29's case: an accept error was logged while the session ran, and after the
\* session was cancelled the loop left on another error.
C29_Witness ==
    \E o \in Objs :
        /\ acceptPc[o] = "exited"
        /\ heap[o].cancelled
        /\ "Accept error" \in Range(heap[o].Logs)

\* C30: the step of handleConnection in which iap.Dial fails appends the entry
\* to the log of its session, closes the accepted connection, leaves the task
\* without relay connection and without copy goroutine, and leaves the status of
\* the session, its runTunnel goroutine and its accept loop as they were.
C30_DialFailureIsLogged ==
    [][\A k \in DOMAIN conns :
          (conns[k].pc = "dial" /\ conns'[k].pc = "done")
          => LET o == conns[k].tunnel
             IN  /\ heap'[o].Logs = Append(heap[o].Logs, "Failed to dial IAP")
                 /\ conns'[k].localConn = "closed"
                 /\ conns'[k].iapConn = "nil"
                 /\ conns'[k].up = "none" /\ conns'[k].down = "none"
                 /\ heap'[o].Status = heap[o].Status
                 /\ heap'[o].listener = heap[o].listener
                 /\ acceptPc'[o] = acceptPc[o]
                 /\ runPc'[o] = runPc[o]]_vars

\* C30's case: the dial of a connection failed, and the session, still
\* "running", took another connection afterwards.
C30_Witness ==
    /\ Len(conns) = 2
    /\ conns[1].pc = "done"
    /\ conns[1].iapConn = "nil"
    /\ conns[1].localConn = "closed"
    /\ heap[conns[1].tunnel].Status = "running"
    /\ acceptPc[conns[1].tunnel] = "run"
    /\ conns[2].tunnel = conns[1].tunnel

\* C31: the relay connection of a bridged connection is closed, and "Connection
\* closed" is appended to the log of its session, only in a step taken when both
\* copy goroutines have finished; while one has finished and the other has not,
\* handleConnection has not completed and the relay connection is open.
C31_ClosedAfterBothCopies ==
    [][\A k \in DOMAIN conns :
          /\ (conns[k].iapConn = "open" /\ conns'[k].iapConn # "open")
             => (conns[k].up = "done" /\ conns[k].down = "done")
          /\ (conns[k].pc = "copy" /\ conns'[k].pc = "done")
             => /\ conns[k].up = "done" /\ conns[k].down = "done"
                /\ heap'[conns[k].tunnel].Logs
                      = Append(heap[conns[k].tunnel].Logs, "Connection closed")
          /\ (conns[k].pc = "copy"
              /\ heap'[conns[k].tunnel].Logs # heap[conns[k].tunnel].Logs
              /\ heap'[conns[k].tunnel].Logs[Len(heap'[conns[k].tunnel].Logs)]
                    = "Connection closed")
             => \E j \in DOMAIN conns :
                   /\ conns[j].pc = "copy" /\ conns'[j].pc = "done"
                   /\ conns[j].up = "done" /\ conns[j].down = "done"
          /\ ((conns'[k].up = "done") # (conns'[k].down = "done"))
             => (conns'[k].pc = "copy" /\ conns'[k].iapConn = "open")]_vars

\* C31's case: a connection was bridged, its two copy goroutines finished, the
\* one to the relay last, and handleConnection closed it.
C31_Witness ==
    \E k \in DOMAIN conns :
        /\ conns[k].pc = "done"
        /\ conns[k].iapConn = "closed"
        /\ conns[k].up = "done"
        /\ conns[k].down = "done"
        /\ "Connection closed" \in Range(heap[conns[k].tunnel].Logs)

\* C32: GetFreePort makes at most 10 attempts; it returns a port only from a
\* check that found no session in state "starting" or "running" on that port;
\* the loop counter grows only when the check found such a session; and the
\* allocation failure is returned exactly at the loop head reached with 10 such
\* attempts behind it, the error of net.Listen only from an attempt within the
\* 10.
HeldByLiveSession(p) ==
    \E id \in DOMAIN tunnels :
        /\ heap[tunnels[id]].LocalPort = p
        /\ heap[tunnels[id]].Status \in {"starting", "running"}

C32_FreePortAttempts ==
    /\ [](/\ freePort.attempts <= MaxAttempts
          /\ freePort.pc = "check" => freePort.attempts < MaxAttempts)
    /\ [][/\ (freePort.pc # "returned" /\ freePort'.pc = "returned"
                 /\ freePort'.err = "nil")
             => /\ freePort.pc = "check"
                /\ freePort'.port = freePort.port
                /\ ~HeldByLiveSession(freePort.port)
          /\ freePort'.attempts # freePort.attempts
             => /\ freePort.pc = "check"
                /\ HeldByLiveSession(freePort.port)
                /\ freePort'.attempts = freePort.attempts + 1
                /\ freePort'.pc = "listen"
          /\ (freePort.pc # "returned" /\ freePort'.pc = "returned"
                 /\ freePort'.err = "failed to find free port after multiple attempts")
             => freePort.pc = "listen" /\ freePort.attempts = MaxAttempts
          /\ (freePort.pc = "listen" /\ freePort.attempts = MaxAttempts
                 /\ freePort' # freePort)
             => /\ freePort'.pc = "returned"
                /\ freePort'.err = "failed to find free port after multiple attempts"
          /\ (freePort.pc # "returned" /\ freePort'.pc = "returned"
                 /\ freePort'.err = "listen failed")
             => freePort.pc = "listen" /\ freePort.attempts < MaxAttempts]_vars

\* The allocation failure was returned after 10 attempts.
C32_Witness ==
    /\ freePort.pc = "returned"
    /\ freePort.err = "failed to find free port after multiple attempts"
    /\ freePort.attempts = MaxAttempts

\* C33: in pollForWindowsPassword the interval is 2s when the call begins and
\* changes only in the sleep after a poll that fetched the output: that sleep
\* lasts exactly the interval, and the interval then grows by 1s, or stays once
\* it is 5s (2, 3, 4, 5, 5, ...); during the call it is never below 2s and never
\* above 5s.
C33_IntervalSequence ==
    /\ [](pollPc # "idle" => interval >= FirstInterval /\ interval <= MaxInterval)
    /\ [][/\ (pollPc = "idle" /\ pollPc' # "idle") => interval' = FirstInterval
          /\ (pollPc = "sleep" /\ pollPc' # "sleep")
             => /\ elapsed' - elapsed = interval
                /\ interval' = IF interval = 5 THEN 5 ELSE interval + 1
          /\ (pollPc \notin {"idle", "sleep"}) => interval' = interval]_vars

\* The sleeps of 2s, 3s and 4s are behind and a sleep of 5s has been made: the
\* next one lasts 5s again.
C33_Witness ==
    /\ pollPc = "sleep"
    /\ interval = MaxInterval
    /\ elapsed >= 2 + 3 + 4 + 5

\* The payload of the i-th entry is base64 text that privateKey decrypts.
Decrypts(i) ==
    serial[i].enc.kind = "payload" /\ serial[i].enc.key = expectedModulus

\* C34: when the poll that reads the output finds an entry with the published
\* modulus and a payload that decrypts, the call returns in that poll, without
\* a sleep, the text that payload decrypts to with the private key of the call,
\* whatever else the entry and the later entries hold; and a call that has
\* returned sleeps and polls no more.
C34_ReturnsSecretInSamePoll ==
    [][/\ (pollPc = "fetch" /\ pollPc' \in {"sleep", "returned"})
          => \A i \in DOMAIN serial :
                (Finds(i) /\ Decrypts(i))
                => /\ pollPc' = "returned"
                   /\ pollRet' = PollResult("nil", serial[i].enc.text, "")
                   /\ pollRet'.password
                        = decryptWindowsPassword(serial[i].enc, expectedModulus).password
                   /\ elapsed' <= elapsed + MaxFetchTime
       /\ pollPc = "returned"
          => pollPc' = "returned" /\ elapsed' = elapsed /\ pollRet' = pollRet]_vars

\* C34's case: the output held an entry of the call without payload or message
\* and then the payload, beside an error message; the call returned the secret
\* before any sleep.
C34_Witness ==
    /\ pollPc = "returned"
    /\ pollRet = PollResult("nil", expectedModulus, "")
    /\ elapsed <= MaxFetchTime
    /\ Len(serial) >= 2
    /\ Answers(1)
    /\ serial[1].enc.kind = "empty"
    /\ serial[2].errorMessage # ""

\* C37: when the poll that reads the output finds an entry with the published
\* modulus and a non-empty payload that is not base64 or that the private key
\* does not decrypt, the call returns in that poll the decrypt failure, with the
\* error of the step that failed for detail and no password, whatever the later
\* entries of the same output hold; and a call that has returned polls no more.
C37_DecryptFailureEndsPoll ==
    [][/\ (pollPc = "fetch" /\ pollPc' \in {"sleep", "returned"})
          => \A i \in DOMAIN serial :
                (Finds(i) /\ serial[i].enc.kind # "empty" /\ ~Decrypts(i))
                => /\ pollPc' = "returned"
                   /\ pollRet'.err = "failed to decrypt password"
                   /\ pollRet'.password = 0
                   /\ pollRet'.detail
                        = IF serial[i].enc.kind = "garbage"
                          THEN "failed to decode encrypted password"
                          ELSE "failed to decrypt"
       /\ (pollPc = "returned" /\ pollRet.err = "failed to decrypt password")
          => pollPc' = "returned" /\ pollRet' = pollRet]_vars

\* C37's case: the output held a payload encrypted to another key under the
\* published modulus and, after it, the payload of the call; the call returned
\* the decrypt failure.
C37_Witness ==
    /\ pollPc = "returned"
    /\ pollRet = PollResult("failed to decrypt password", 0, "failed to decrypt")
    /\ Len(serial) >= 2
    /\ serial[1].enc.kind = "payload"
    /\ Answers(2)
    /\ Decrypts(2)

\* C35: once StopTunnel has returned success for a session, the accept loop of
\* that session takes no connection and spawns no handleConnection task, also
\* when the session was "starting" at the stop and runTunnel binds the listener
\* afterwards.
C35_NoAcceptAfterStop ==
    [][\A o \in Objs :
          stops[o] > 0
          => \A k \in DOMAIN conns' : conns'[k].tunnel = o => k \in DOMAIN conns]_vars

\* The goroutine th holds the logsMu of some session other than skip.
HoldsLogsMu(th, skip) == \E s \in Calls \ {skip} : logsMu[s] = th

\* C36: the tunnel manager does not deadlock.  A goroutine that asks for or
\* takes the registry lock holds no log lock, a goroutine that takes a log lock
\* holds no other log lock, and every operation that has begun makes all its
\* lock calls and returns.
C36_NoDeadlock ==
    /\ [][\A th \in Threads :
             /\ (\/ th \in tunnelsMu'.waiting \ tunnelsMu.waiting
                 \/ tunnelsMu'.writer = th /\ tunnelsMu.writer # th
                 \/ th \in tunnelsMu'.readers \ tunnelsMu.readers)
                => ~HoldsLogsMu(th, 0)
             /\ \A s \in Calls :
                   (logsMu'[s] = th /\ logsMu[s] # th) => ~HoldsLogsMu(th, s)]_vars
    /\ \A th \in Threads : (threads[th].op # "none") ~> ThreadReturned(th)

\* C36's case: a goroutine holds the registry lock and the log lock of a session
\* (the bookmark update) while another goroutine is at the Lock of that log.
C36_Witness ==
    \E th \in Threads, other \in Threads, s \in Calls :
        /\ th # other
        /\ tunnelsMu.writer = th
        /\ logsMu[s] = th
        /\ NextIns(other) = Ins("logsMu.Lock", s)

\* C38: when AddFavorite fails to persist the configuration, its rollback removes
\* from the in-memory favorites the favorite this call appended and no other: the
\* favorites afterwards are those from before without this call's, the ones
\* concurrent calls appended in the meantime included.
C38_RollbackRemovesOwn ==
    [][\A c \in Adders :
          (adds[c].pc = "saved" /\ adds[c].err # "nil" /\ adds'[c].pc = "returned")
          => favorites' = RollbackOwn(favorites, c)]_vars

\* C39: after AddFavorite calls made one after the other that all succeeded, no
\* two favorites of the list have the same LocalPort.
C39_DistinctLocalPorts ==
    (\A c \in Adders : adds[c].pc = "idle"
                       \/ (adds[c].pc = "returned" /\ adds[c].err = "nil"))
    => \A i \in DOMAIN favorites, j \in DOMAIN favorites :
          i # j => favorites[i].LocalPort # favorites[j].LocalPort

====
